---- MODULE Spec2Model ----
(***************************************************************************)
(* A model of the local rule-based statement parsers of api-finance-app    *)
(* (C6BankStatementParser and LocalStatementParser).                       *)
(*                                                                         *)
(* Text.  A JavaScript string is modelled as a sequence of symbols.  A     *)
(* symbol is either one character ("0".."9", ".", ",", "-", "/", ":", "|", *)
(* "R", "$", " ") or one whole word made of letters only ("Subtotal",      *)
(* "jan", "LEANDRO"), which no pattern of the parsers ever splits.         *)
(* Numbers are kept in cents: the parsers round every amount to 2 decimals.*)
(* An optional value (null / undefined) is None, a present one Some(v).    *)
(***************************************************************************)
EXTENDS Integers, Sequences, FiniteSets, TLC

None == <<>>
Some(v) == <<v>>
Val(o) == o[1]

(***************************************************************************)
(* Characters and character classes of the regular expressions.            *)
(***************************************************************************)
Digits == {"0", "1", "2", "3", "4", "5", "6", "7", "8", "9"}

IsDigit(c) == c \in Digits

DigitVal(c) ==
  CASE c = "0" -> 0 [] c = "1" -> 1 [] c = "2" -> 2 [] c = "3" -> 3
    [] c = "4" -> 4 [] c = "5" -> 5 [] c = "6" -> 6 [] c = "7" -> 7
    [] c = "8" -> 8 [] c = "9" -> 9

DigitChar(n) ==
  CASE n = 0 -> "0" [] n = 1 -> "1" [] n = 2 -> "2" [] n = 3 -> "3"
    [] n = 4 -> "4" [] n = 5 -> "5" [] n = 6 -> "6" [] n = 7 -> "7"
    [] n = 8 -> "8" [] n = 9 -> "9"

\* \s
IsSpace(c) == c = " "

\* The symbol at position i, or "" past either end.
At(s, i) == IF i >= 1 /\ i <= Len(s) THEN s[i] ELSE ""

\* s.slice(i - 1, j): the symbols at the positions i..j that exist.
Slice(s, i, j) ==
  LET a == IF i < 1 THEN 1 ELSE i
      b == IF j > Len(s) THEN Len(s) ELSE j
  IN  IF a > b THEN <<>> ELSE SubSeq(s, a, b)

\* The number of consecutive digits of s from position i on (\d* , greedy).
RECURSIVE LeadingDigits(_, _)
LeadingDigits(s, i) ==
  IF IsDigit(At(s, i)) THEN 1 + LeadingDigits(s, i + 1) ELSE 0

\* The number of consecutive white-space symbols of s from position i on (\s*).
RECURSIVE LeadingSpaces(_, _)
LeadingSpaces(s, i) ==
  IF IsSpace(At(s, i)) THEN 1 + LeadingSpaces(s, i + 1) ELSE 0

\* The value of a sequence of digits, read in base 10 (Number.parseInt(x, 10)).
RECURSIVE DigitsValue(_)
DigitsValue(ds) ==
  IF ds = <<>> THEN 0
  ELSE 10 * DigitsValue(Slice(ds, 1, Len(ds) - 1)) + DigitVal(ds[Len(ds)])

\* String(n) for a natural number n.
RECURSIVE NatToText(_)
NatToText(n) ==
  IF n < 10 THEN <<DigitChar(n)>>
  ELSE NatToText(n \div 10) \o <<DigitChar(n % 10)>>

\* String.prototype.trim
RECURSIVE TrimLeft(_)
TrimLeft(s) == IF s /= <<>> /\ IsSpace(s[1]) THEN TrimLeft(Tail(s)) ELSE s

RECURSIVE TrimRight(_)
TrimRight(s) ==
  IF s /= <<>> /\ IsSpace(s[Len(s)]) THEN TrimRight(Slice(s, 1, Len(s) - 1)) ELSE s

Trim(s) == TrimLeft(TrimRight(s))

\* s.replace(/\s+/g, ' '): every run of white space becomes one space.
RECURSIVE CollapseSpaces(_)
CollapseSpaces(s) ==
  IF s = <<>> THEN <<>>
  ELSE IF IsSpace(s[1])
       THEN <<" ">> \o CollapseSpaces(Slice(s, 1 + LeadingSpaces(s, 1), Len(s)))
       ELSE <<s[1]>> \o CollapseSpaces(Tail(s))

\* parts.join(sep)
RECURSIVE JoinWith(_, _)
JoinWith(parts, sep) ==
  IF parts = <<>> THEN <<>>
  ELSE IF Len(parts) = 1 THEN parts[1]
       ELSE parts[1] \o sep \o JoinWith(Tail(parts), sep)

\* The first position from i on where the literal lit starts in s, or 0.
RECURSIVE FindFrom(_, _, _)
FindFrom(s, lit, i) ==
  IF i + Len(lit) - 1 > Len(s) THEN 0
  ELSE IF Slice(s, i, i + Len(lit) - 1) = lit THEN i
       ELSE FindFrom(s, lit, i + 1)

(***************************************************************************)
(* parseCurrency (the same code in both parsers).                          *)
(***************************************************************************)

\* value.replace(/[\sR$]/gi, '').replace(/\./g, '')
StripCurrencyMarks(value) ==
  SelectSeq(value, LAMBDA c : c \notin {" ", "R", "r", "$", "."})

\* .replace(',', '.'): only the first comma is replaced.
RECURSIVE ReplaceFirstComma(_)
ReplaceFirstComma(s) ==
  IF s = <<>> THEN <<>>
  ELSE IF s[1] = "," THEN <<".">> \o Tail(s)
       ELSE <<s[1]>> \o ReplaceFirstComma(Tail(s))

\* .replace(/[^\d.-]/g, '')
KeepNumeric(s) == SelectSeq(s, LAMBDA c : IsDigit(c) \/ c \in {".", "-"})

Sanitize(value) == KeepNumeric(ReplaceFirstComma(StripCurrencyMarks(value)))

\* Number.parseFloat on a string of digits, "." and "-": the longest prefix
\* [-]digits[.digits]; NaN (None) when that prefix holds no digit.
ParseFloat(s) ==
  LET neg == At(s, 1) = "-"
      i == IF neg THEN 2 ELSE 1
      n1 == LeadingDigits(s, i)
      n2 == IF At(s, i + n1) = "." THEN LeadingDigits(s, i + n1 + 1) ELSE 0
  IN  IF n1 = 0 /\ n2 = 0 THEN None
      ELSE Some([neg |-> neg,
                 int |-> Slice(s, i, i + n1 - 1),
                 frac |-> Slice(s, i + n1 + 1, i + n1 + n2)])

\* Number(number.toFixed(2)), in cents.  The third decimal decides the
\* rounding; an exact tie (a third decimal 5 followed by nothing but zeros)
\* depends on the binary value of the double and is kept out of the inputs.
ToFixed2(num) ==
  LET f == num.frac
      magnitude == 100 * DigitsValue(num.int)
                   + 10 * (IF Len(f) >= 1 THEN DigitVal(f[1]) ELSE 0)
                   + (IF Len(f) >= 2 THEN DigitVal(f[2]) ELSE 0)
                   + (IF Len(f) >= 3 /\ DigitVal(f[3]) >= 5 THEN 1 ELSE 0)
  IN  IF num.neg THEN 0 - magnitude ELSE magnitude

parseCurrencyNoRounding(value) ==
  IF value = None \/ Val(value) = <<>> THEN None
  ELSE LET number == ParseFloat(Sanitize(Val(value)))
       IN  IF number = None THEN None
           ELSE Some(ToFixed2([Val(number) EXCEPT !.frac = Slice(@, 1, 2)]))

\* C6BankStatementParser.parseCurrency and LocalStatementParser.parseCurrency:
\* value is None (null / undefined) or Some(string).
parseCurrency(value) ==
  IF value = None \/ Val(value) = <<>> THEN None
  ELSE LET number == ParseFloat(Sanitize(Val(value)))
       IN  IF number = None THEN None ELSE Some(ToFixed2(Val(number)))

(***************************************************************************)
(* Words.  The letter-only symbols the model's documents are written with, *)
(* and what the character classes of the patterns say about each of them.  *)
(***************************************************************************)

\* Words of [A-ZÀ-Ü] letters only.
UpperWords ==
  {"LEANDRO", "MARTINS", "MARIA", "VALOR", "TOTAL", "PAGAMENTO", "MÍNIMO", "R"}

\* Words with a letter outside [a-zA-ZçÇ] (an accented vowel).
AccentedWords ==
  {"até", "cartão", "Cartão", "Transações", "cartões", "mínimo", "MÍNIMO", "Período",
   "Débito", "automático", "crédito", "disponível", "NÚMERO"}

\* The number of characters of a symbol: 1 for a character, the word's
\* length for a word.
CharLen(c) ==
  CASE c \in {"R", "r", "$", " ", ".", ",", "-", "/", ":", "|", "'"} \cup Digits -> 1
    [] c \in {"da", "de", "do", "em", "ou"} -> 2
    [] c \in {"até", "jan", "fev", "mar", "abr", "mai", "jun", "jul", "ago",
              "set", "out", "nov", "dez", "xyz", "dia", "dos", "pix"} -> 3
    [] c \in {"Loja", "Visa", "loja"} -> 4
    [] c \in {"Valor", "VALOR", "TOTAL", "MARIA", "deste", "Final", "reais",
              "março", "marco", "NOSSO", "total"} -> 5
    [] c \in {"fatura", "cartão", "Cartão", "Débito", "Limite", "Melhor", "compra",
              "MÍNIMO", "mínimo", "NÚMERO", "Isento", "geral"} -> 6
    [] c \in {"LEANDRO", "MARTINS", "estorno", "Período", "Valores", "Ativado",
              "cartões", "crédito", "titular", "Titular", "parcial", "parcela"} -> 7
    [] c \in {"Subtotal", "Anuidade", "anuidade"} -> 8
    [] c \in {"PAGAMENTO", "Pagamento", "pagamento", "principal"} -> 9
    [] c \in {"Transações", "adicionais", "Vencimento", "Fechamento",
              "Desativado", "automático", "disponível", "Mastercard"} -> 10

IsWord(c) == ~(c \in {"$", " ", ".", ",", "-", "/", ":", "|", "'", ""} \cup Digits)

\* [a-zç] under the i flag: a letter without a diacritic other than the cedilla.
IsPlainWord(c) == IsWord(c) /\ c \notin AccentedWords

\* String.prototype.toLowerCase, and the i flag of a pattern, symbol by symbol.
Fold(c) ==
  CASE c = "R" -> "r"
    [] c = "Valor" -> "valor" [] c = "VALOR" -> "valor"
    [] c = "TOTAL" -> "total"
    [] c = "Pagamento" -> "pagamento" [] c = "PAGAMENTO" -> "pagamento"
    [] c = "MÍNIMO" -> "mínimo"
    [] c = "Subtotal" -> "subtotal"
    [] c = "Transações" -> "transações"
    [] c = "Valores" -> "valores"
    [] c = "Vencimento" -> "vencimento"
    [] c = "Fechamento" -> "fechamento"
    [] c = "Titular" -> "titular"
    [] c = "Débito" -> "débito"
    [] c = "Anuidade" -> "anuidade"
    [] c = "Limite" -> "limite"
    [] c = "Melhor" -> "melhor"
    [] c = "NOSSO" -> "nosso" [] c = "NÚMERO" -> "número"
    [] c = "Ativado" -> "ativado" [] c = "Desativado" -> "desativado"
    [] c = "Final" -> "final"
    [] c = "Cartão" -> "cartão"
    [] c = "Loja" -> "loja"
    [] c = "Isento" -> "isento"
    [] c = "C6" -> "c6" [] c = "Bank" -> "bank" [] c = "GENERIC" -> "generic"
    [] OTHER -> c

FoldText(s) == [i \in DOMAIN s |-> Fold(s[i])]

(***************************************************************************)
(* Normalized rows (PdfTextNormalizer's NormalizedTextLine) as the tests'  *)
(* fixtures build them: chunks 40 units apart, the row text the chunk      *)
(* texts joined by single spaces.                                          *)
(***************************************************************************)
chunk(text, x) == [text |-> text, x |-> x]

line(texts) ==
  [text |-> Trim(CollapseSpaces(JoinWith(texts, <<" ">>))),
   chunks |-> [i \in DOMAIN texts |-> chunk(texts[i], 10 + (i - 1) * 40)]]

(***************************************************************************)
(* The bank-specific parser (C6BankStatementParser): patterns and dates.   *)
(***************************************************************************)

\* DATE_CHUNK_REGEX = /^(\d{1,2})\s+([a-zç]{3,})$/i and the same pattern in
\* parseStatementDate: the day digits and the month word, or None.
MatchDateChunk(s) ==
  LET nd == LeadingDigits(s, 1)
      ns == LeadingSpaces(s, nd + 1)
      w == At(s, nd + ns + 1)
  IN  IF /\ nd \in {1, 2}
         /\ ns >= 1
         /\ Len(s) = nd + ns + 1
         /\ IsPlainWord(w)
         /\ CharLen(w) >= 3
      THEN Some([day |-> Slice(s, 1, nd), month |-> w])
      ELSE None

\* (?:\.\d{3})*,\d{2}$ from position i on.
RECURSIVE ThousandsTail(_, _)
ThousandsTail(s, i) ==
  \/ /\ At(s, i) = ","
     /\ IsDigit(At(s, i + 1))
     /\ IsDigit(At(s, i + 2))
     /\ Len(s) = i + 2
  \/ /\ At(s, i) = "."
     /\ IsDigit(At(s, i + 1))
     /\ IsDigit(At(s, i + 2))
     /\ IsDigit(At(s, i + 3))
     /\ ThousandsTail(s, i + 4)

\* AMOUNT_REGEX = /-?\d{1,3}(?:\.\d{3})*,\d{2}$/ .test(s): the pattern is not
\* anchored at its start, so it may begin at any position.
AMOUNT_REGEX(s) ==
  \E i \in 1..Len(s) :
    LET j == IF s[i] = "-" THEN i + 1 ELSE i
    IN  \E n \in 1..3 : LeadingDigits(s, j) >= n /\ ThousandsTail(s, j + n)

MONTH_MAP(name) ==
  CASE name \in {"jan", "janeiro"} -> Some(<<"0", "1">>)
    [] name \in {"fev", "fevereiro"} -> Some(<<"0", "2">>)
    [] name \in {"mar", "março", "marco"} -> Some(<<"0", "3">>)
    [] name \in {"abr", "abril"} -> Some(<<"0", "4">>)
    [] name \in {"mai", "maio"} -> Some(<<"0", "5">>)
    [] name \in {"jun", "junho"} -> Some(<<"0", "6">>)
    [] name \in {"jul", "julho"} -> Some(<<"0", "7">>)
    [] name \in {"ago", "agosto"} -> Some(<<"0", "8">>)
    [] name \in {"set", "setembro"} -> Some(<<"0", "9">>)
    [] name \in {"out", "outubro"} -> Some(<<"1", "0">>)
    [] name \in {"nov", "novembro"} -> Some(<<"1", "1">>)
    [] name \in {"dez", "dezembro"} -> Some(<<"1", "2">>)
    [] OTHER -> None

\* value.normalize('NFD').replace(/\p{Diacritic}/gu, '').toLowerCase()
normalizeMonth(value) == IF value = "março" THEN "marco" ELSE Fold(value)

\* x.padStart(2, '0')
PadStart2(ds) == IF Len(ds) < 2 THEN <<"0">> \o ds ELSE ds

\* `${year}-${month}-${day}`
IsoDate(year, month, day) == year \o <<"-">> \o month \o <<"-">> \o day

parseStatementDateNoRollback(value, fallbackYear, closingMonth, now) ==
  LET match == MatchDateChunk(value)
  IN  IF match = None THEN None
      ELSE LET month == MONTH_MAP(normalizeMonth(Val(match).month))
           IN  IF month = None THEN None
               ELSE Some(IsoDate(NatToText(IF fallbackYear /= None
                                           THEN Val(fallbackYear) ELSE now),
                                 Val(month), PadStart2(Val(match).day)))

\* parseStatementDate; now is the year the wall clock shows
\* (new Date().getFullYear()).
parseStatementDate(value, fallbackYear, closingMonth, now) ==
  LET match == MatchDateChunk(value)
  IN  IF match = None THEN None
      ELSE LET day == PadStart2(Val(match).day)
               month == MONTH_MAP(normalizeMonth(Val(match).month))
           IN  IF month = None THEN None
               ELSE LET year0 == IF fallbackYear /= None THEN Val(fallbackYear) ELSE now
                        year == IF /\ closingMonth /= None
                                   /\ Val(closingMonth) /= 0
                                   /\ DigitsValue(Val(month)) > Val(closingMonth)
                                THEN year0 - 1
                                ELSE year0
                    IN  Some(IsoDate(NatToText(year), Val(month), day))

\* The numeric form of parseDateValue and the generic parser's DATE_REGEX:
\* /^(\d{2})[/-](\d{2})(?:[/-](\d{2,4}))?$/ ; yy is <<>> when absent.
MatchNumericDate(s) ==
  LET sep(c) == c \in {"/", "-"}
      ny == LeadingDigits(s, 7)
  IN  IF /\ LeadingDigits(s, 1) = 2
         /\ sep(At(s, 3))
         /\ LeadingDigits(s, 4) >= 2
      THEN IF Len(s) = 5
           THEN Some([dd |-> Slice(s, 1, 2), mm |-> Slice(s, 4, 5), yy |-> <<>>])
           ELSE IF sep(At(s, 6)) /\ ny \in 2..4 /\ Len(s) = 6 + ny
                THEN Some([dd |-> Slice(s, 1, 2), mm |-> Slice(s, 4, 5),
                           yy |-> Slice(s, 7, 6 + ny)])
                ELSE None
      ELSE None

\* The textual form of parseDateValue:
\* /^(\d{1,2})\s+de\s+([a-zç]+)(?:\s+de\s+(\d{4}))?$/i
MatchTextDate(s) ==
  LET f == FoldText(s)
      nd == LeadingDigits(s, 1)
      s1 == LeadingSpaces(s, nd + 1)
      pDe == nd + s1 + 1
      s2 == LeadingSpaces(s, pDe + 1)
      pMonth == pDe + 1 + s2
      s3 == LeadingSpaces(s, pMonth + 1)
      pDe2 == pMonth + 1 + s3
      s4 == LeadingSpaces(s, pDe2 + 1)
      pYear == pDe2 + 1 + s4
  IN  IF /\ nd \in {1, 2}
         /\ s1 >= 1
         /\ At(f, pDe) = "de"
         /\ s2 >= 1
         /\ IsPlainWord(At(s, pMonth))
      THEN IF Len(s) = pMonth
           THEN Some([day |-> Slice(s, 1, nd), month |-> s[pMonth], year |-> <<>>])
           ELSE IF /\ s3 >= 1
                   /\ At(f, pDe2) = "de"
                   /\ s4 >= 1
                   /\ LeadingDigits(s, pYear) = 4
                   /\ Len(s) = pYear + 3
                THEN Some([day |-> Slice(s, 1, nd), month |-> s[pMonth],
                           year |-> Slice(s, pYear, pYear + 3)])
                ELSE None
      ELSE None

\* C6BankStatementParser.parseDateValue
parseDateValue(value, fallbackYear, now) ==
  IF value = <<>> THEN None
  ELSE
    LET trimmed == Trim(value)
        numericMatch == MatchNumericDate(trimmed)
        textMatch == MatchTextDate(trimmed)
        fallbackText == NatToText(IF fallbackYear /= None /\ Val(fallbackYear) /= 0
                                  THEN Val(fallbackYear) ELSE now)
    IN  IF numericMatch /= None
        THEN LET m == Val(numericMatch)
                 year == IF m.yy = <<>> THEN fallbackText
                         ELSE IF Len(m.yy) = 2 THEN <<"2", "0">> \o m.yy
                         ELSE m.yy
             IN  Some(IsoDate(year, m.mm, m.dd))
        ELSE IF textMatch /= None
        THEN LET m == Val(textMatch)
                 month == MONTH_MAP(normalizeMonth(m.month))
                 year == IF m.year /= <<>> THEN m.year
                         ELSE NatToText(IF fallbackYear /= None
                                        THEN Val(fallbackYear) ELSE now)
             IN  IF month = None THEN None
                 ELSE Some(IsoDate(year, Val(month), PadStart2(m.day)))
        ELSE None

\* extractYear: /^(\d{4})-/
extractYear(dateIso) ==
  IF dateIso = None \/ Val(dateIso) = <<>> THEN None
  ELSE LET s == Val(dateIso)
       IN  IF LeadingDigits(s, 1) = 4 /\ At(s, 5) = "-"
           THEN Some(DigitsValue(Slice(s, 1, 4)))
           ELSE None

\* extractMonth: /^\d{4}-(\d{2})-/
extractMonth(dateIso) ==
  IF dateIso = None \/ Val(dateIso) = <<>> THEN None
  ELSE LET s == Val(dateIso)
       IN  IF /\ LeadingDigits(s, 1) = 4
              /\ At(s, 5) = "-"
              /\ LeadingDigits(s, 6) = 2
              /\ At(s, 8) = "-"
           THEN Some(DigitsValue(Slice(s, 6, 7)))
           ELSE None

(***************************************************************************)
(* The bank-specific transaction detector.                                 *)
(***************************************************************************)

\* Whether some word of the text holds one of the keywords: the words that
\* contain a keyword of the group are listed.
HasWord(s, words) == \E i \in DOMAIN s : s[i] \in words

HasSlashNumbersNever(s) == FALSE

\* /\d+\/\d+/ anywhere in the text
HasSlashNumbers(s) ==
  \E i \in DOMAIN s : IsDigit(s[i]) /\ At(s, i + 1) = "/" /\ IsDigit(At(s, i + 2))

RefundWords == {"estorno", "reembolso", "cashback", "crédito", "credito"}
PaymentWords == {"pagamento", "pagto", "boleto", "pix"}
AdjustmentWords == {"ajuste", "ajustado", "antecipação", "inclusão", "compensação"}
FeeWords == {"tarifa", "juros", "encargo", "encargos", "anuidade", "multa"}
InstallmentWords == {"parcela", "parcelamento", "parcelado"}

\* C6BankStatementParser.determineTransactionType
determineTransactionType(description) ==
  LET normalized == FoldText(description)
  IN  IF HasWord(normalized, RefundWords) THEN "refund"
      ELSE IF HasWord(normalized, PaymentWords) THEN "payment"
      ELSE IF HasWord(normalized, AdjustmentWords) THEN "adjustment"
      ELSE IF HasWord(normalized, FeeWords) THEN "fee"
      ELSE IF HasWord(normalized, InstallmentWords) \/ HasSlashNumbers(normalized)
           THEN "installment"
      ELSE "purchase"

\* /(\d{1,2})\/(\d{1,2})/ at position i: 1 or 2 digits, "/", 1 or 2 digits.
InstallmentAt(s, i) ==
  LET n == LeadingDigits(s, i)
  IN  n \in {1, 2} /\ At(s, i + n) = "/" /\ IsDigit(At(s, i + n + 1))

\* The pattern also matches inside a longer run of digits, from its last
\* two digits on.
InstallmentStarts(s) ==
  {i \in DOMAIN s : IsDigit(s[i]) /\ InstallmentAt(s, i)}

\* C6BankStatementParser.extractInstallmentInfo
extractInstallmentInfo(description) ==
  IF InstallmentStarts(description) = {}
  THEN [current |-> None, total |-> None]
  ELSE LET i == CHOOSE k \in InstallmentStarts(description) :
                  \A j \in InstallmentStarts(description) : k <= j
           n == LeadingDigits(description, i)
           m == IF LeadingDigits(description, i + n + 1) >= 2 THEN 2 ELSE 1
       IN  [current |-> Some(DigitsValue(Slice(description, i, i + n - 1))),
            total |-> Some(DigitsValue(Slice(description, i + n + 1, i + n + m)))]

buildDescriptionUncollapsed(chunks) ==
  Trim(JoinWith([i \in DOMAIN chunks |-> chunks[i].text], <<" ">>))

\* C6BankStatementParser.buildDescription
buildDescription(chunks) ==
  Trim(CollapseSpaces(JoinWith([i \in DOMAIN chunks |-> chunks[i].text], <<" ">>)))

\* C6BankStatementParser.splitLineIntoTransactionChunks: the loop over
\* line.chunks from chunk k on, with the groups closed so far and the open
\* group (None, or Some(group)).
RECURSIVE SplitFromMerging(_, _, _, _)
SplitFromMerging(chunks, k, groups, currentGroup) ==
  IF k > Len(chunks)
  THEN IF currentGroup /= None /\ Len(Val(currentGroup)) > 0
       THEN Append(groups, Val(currentGroup))
       ELSE groups
  ELSE
    LET trimmed == Trim(chunks[k].text)
        c == [chunks[k] EXCEPT !.text = trimmed]
    IN  IF trimmed = <<>> THEN SplitFromMerging(chunks, k + 1, groups, currentGroup)
        ELSE IF MatchDateChunk(trimmed) /= None /\ currentGroup = None
        THEN SplitFromMerging(chunks, k + 1, groups, Some(<<c>>))
        ELSE IF currentGroup = None
        THEN SplitFromMerging(chunks, k + 1, groups, None)
        ELSE IF AMOUNT_REGEX(trimmed)
        THEN SplitFromMerging(chunks, k + 1, Append(groups, Append(Val(currentGroup), c)),
                              None)
        ELSE SplitFromMerging(chunks, k + 1, groups, Some(Append(Val(currentGroup), c)))

RECURSIVE SplitFrom(_, _, _, _)
SplitFrom(chunks, k, groups, currentGroup) ==
  IF k > Len(chunks)
  THEN IF currentGroup /= None /\ Len(Val(currentGroup)) > 0
       THEN Append(groups, Val(currentGroup))
       ELSE groups
  ELSE
    LET trimmed == Trim(chunks[k].text)
        c == [chunks[k] EXCEPT !.text = trimmed]
    IN  IF trimmed = <<>> THEN SplitFrom(chunks, k + 1, groups, currentGroup)
        ELSE IF MatchDateChunk(trimmed) /= None
        THEN SplitFrom(chunks, k + 1,
                       IF currentGroup /= None /\ Len(Val(currentGroup)) > 0
                       THEN Append(groups, Val(currentGroup))
                       ELSE groups,
                       Some(<<c>>))
        ELSE IF currentGroup = None
        THEN SplitFrom(chunks, k + 1, groups, None)
        ELSE IF AMOUNT_REGEX(trimmed)
        THEN SplitFrom(chunks, k + 1, Append(groups, Append(Val(currentGroup), c)), None)
        ELSE SplitFrom(chunks, k + 1, groups, Some(Append(Val(currentGroup), c)))

splitLineIntoTransactionChunks(ln) == SplitFrom(ln.chunks, 1, <<>>, None)

FallbackCurrency == "BRL"

\* The transaction that one group yields, as a sequence of 0 or 1 elements.
GroupTransactionKeepNull(group, fallbackYear, closingMonth, now) ==
  IF Len(group) < 3 THEN <<>>
  ELSE
    LET rest == Tail(group)
        amountText == Trim(rest[Len(rest)].text)
        description == buildDescription(Slice(rest, 1, Len(rest) - 1))
    IN  IF ~AMOUNT_REGEX(amountText) THEN <<>>
        ELSE IF description = <<>> THEN <<>>
        ELSE <<[date |-> parseStatementDate(Trim(group[1].text), fallbackYear,
                                             closingMonth, now),
                description |-> description,
                amount |-> parseCurrency(Some(amountText)),
                currency |-> FallbackCurrency,
                transaction_type |-> determineTransactionType(description),
                installment |-> extractInstallmentInfo(description)]>>

\* The body of the loop over the groups in extractTransactionsFromLines.
GroupTransaction(group, fallbackYear, closingMonth, now) ==
  IF Len(group) < 3 THEN <<>>
  ELSE
    LET rest == Tail(group)
        amountText == Trim(rest[Len(rest)].text)
        description == buildDescription(Slice(rest, 1, Len(rest) - 1))
        amount == parseCurrency(Some(amountText))
    IN  IF ~AMOUNT_REGEX(amountText) THEN <<>>
        ELSE IF description = <<>> THEN <<>>
        ELSE IF amount = None THEN <<>>
        ELSE <<[date |-> parseStatementDate(Trim(group[1].text), fallbackYear,
                                             closingMonth, now),
                description |-> description,
                amount |-> amount,
                currency |-> FallbackCurrency,
                transaction_type |-> determineTransactionType(description),
                installment |-> extractInstallmentInfo(description)]>>

RECURSIVE GroupsTransactions(_, _, _, _)
GroupsTransactions(groups, fallbackYear, closingMonth, now) ==
  IF groups = <<>> THEN <<>>
  ELSE GroupTransaction(groups[1], fallbackYear, closingMonth, now)
       \o GroupsTransactions(Tail(groups), fallbackYear, closingMonth, now)

\* C6BankStatementParser.extractTransactionsFromLines
RECURSIVE extractTransactionsFromLines(_, _, _, _)
extractTransactionsFromLines(lines, fallbackYear, closingMonth, now) ==
  IF lines = <<>> THEN <<>>
  ELSE GroupsTransactions(splitLineIntoTransactionChunks(lines[1]),
                          fallbackYear, closingMonth, now)
       \o extractTransactionsFromLines(Tail(lines), fallbackYear, closingMonth, now)

\* C6BankStatementParser.getSignedAmount
getSignedAmountUnsigned(transaction) ==
  IF transaction.amount = None THEN 0 ELSE Val(transaction.amount)

getSignedAmount(transaction) ==
  LET amount == IF transaction.amount = None THEN 0 ELSE Val(transaction.amount)
  IN  IF transaction.transaction_type \in {"payment", "refund", "adjustment"}
      THEN amount
      ELSE amount * (0 - 1)

(***************************************************************************)
(* The bank-specific header detector (C6BankStatementParser.extractHeader).*)
(* Each pattern is given by the positions where it matches; a match takes  *)
(* the leftmost one, as String.prototype.match does.                       *)
(***************************************************************************)
Min(S) == CHOOSE k \in S : \A j \in S : k <= j
Max(S) == CHOOSE k \in S : \A j \in S : k >= j

\* Whether the literal lit stands at position i of s.
LitAt(s, lit, i) == Slice(s, i, i + Len(lit) - 1) = lit

\* The number of consecutive symbols of [\d.,] from position i on.
RECURSIVE LeadingNumeric(_, _)
LeadingNumeric(s, i) ==
  IF IsDigit(At(s, i)) \/ At(s, i) \in {".", ","}
  THEN 1 + LeadingNumeric(s, i + 1)
  ELSE 0

\* R\$\s*([\d.,]+) at position i of the text s, folded f: the capture or <<>>.
CurrencyValueAt(s, f, i) ==
  IF LitAt(f, <<"r", "$">>, i)
  THEN LET p == i + 2 + LeadingSpaces(s, i + 2)
       IN  Slice(s, p, p + LeadingNumeric(s, p) - 1)
  ELSE <<>>

\* label\s*R\$\s*([\d.,]+), case-insensitive: the capture of the leftmost
\* match, or None.
MatchLabelledCurrency(s, label) ==
  LET f == FoldText(s)
      value(i) == CurrencyValueAt(s, f, i + Len(label) + LeadingSpaces(s, i + Len(label)))
      starts == {i \in DOMAIN s : LitAt(f, label, i) /\ value(i) /= <<>>}
  IN  IF starts = {} THEN None ELSE Some(value(Min(starts)))

\* /^(?:[A-ZÀ-Ü][A-ZÀ-Ü\s\-']+)$/.test(candidate), candidate.length >= 5 and
\* candidate.split(/\s+/).length >= 2
RECURSIVE TextLen(_)
TextLen(s) == IF s = <<>> THEN 0 ELSE CharLen(s[1]) + TextLen(Tail(s))

IsCardholderCandidate(candidate) ==
  /\ candidate /= <<>>
  /\ TextLen(candidate) >= 5
  /\ candidate[1] \in UpperWords
  /\ \A i \in DOMAIN candidate : candidate[i] \in UpperWords \cup {" ", "-", "'"}
  /\ \E i \in DOMAIN candidate : IsSpace(candidate[i])

\* /até\s+(\d{2}[/-]\d{2}(?:[/-]\d{2,4})?)/i at position i: the capture or <<>>.
ClosingAt(s, f, i) ==
  LET sp == LeadingSpaces(s, i + 1)
      p == i + 1 + sp
      sep(c) == c \in {"/", "-"}
      ny == LeadingDigits(s, p + 6)
  IN  IF /\ At(f, i) = "até"
         /\ sp >= 1
         /\ IsDigit(At(s, p)) /\ IsDigit(At(s, p + 1))
         /\ sep(At(s, p + 2))
         /\ IsDigit(At(s, p + 3)) /\ IsDigit(At(s, p + 4))
      THEN IF sep(At(s, p + 5)) /\ ny >= 2
           THEN Slice(s, p, p + 5 + (IF ny > 4 THEN 4 ELSE ny))
           ELSE Slice(s, p, p + 4)
      ELSE <<>>

MatchClosing(s) ==
  LET f == FoldText(s)
      starts == {i \in DOMAIN s : ClosingAt(s, f, i) /= <<>>}
  IN  IF starts = {} THEN None ELSE Some(ClosingAt(s, f, Min(starts)))

\* /Vencimento:\s*([^|\s].*?)(?:Débito|Valor|$)/i at position i
DueAt(s, f, i) ==
  LET p == i + 2 + LeadingSpaces(s, i + 2)
      stops == {q \in (p + 1)..Len(s) : f[q] \in {"débito", "valor"}}
      q == IF stops = {} THEN Len(s) + 1 ELSE Min(stops)
  IN  IF /\ LitAt(f, <<"vencimento", ":">>, i)
         /\ p <= Len(s)
         /\ s[p] /= "|"
      THEN Slice(s, p, q - 1)
      ELSE <<>>

MatchDue(s) ==
  LET f == FoldText(s)
      starts == {i \in DOMAIN s : DueAt(s, f, i) /= <<>>}
  IN  IF starts = {} THEN None ELSE Some(DueAt(s, f, Min(starts)))

\* /Pagamento mínimo\s*(?:ou parcial)?\s*R\$\s*([\d.,]+)/i at position i
MinimumAt(s, f, i) ==
  LET p == i + 3 + LeadingSpaces(s, i + 3)
      q == IF LitAt(f, <<"ou", " ", "parcial">>, p) THEN p + 3 ELSE p
  IN  IF LitAt(f, <<"pagamento", " ", "mínimo">>, i)
      THEN CurrencyValueAt(s, f, q + LeadingSpaces(s, q))
      ELSE <<>>

MatchMinimum(s) ==
  LET f == FoldText(s)
      starts == {i \in DOMAIN s : MinimumAt(s, f, i) /= <<>>}
  IN  IF starts = {} THEN None ELSE Some(MinimumAt(s, f, Min(starts)))

\* /NOSSO NÚMERO\s*(\d{6,})/i
MatchInvoice(s) ==
  LET f == FoldText(s)
      p(i) == i + 3 + LeadingSpaces(s, i + 3)
      starts == {i \in DOMAIN s : /\ LitAt(f, <<"nosso", " ", "número">>, i)
                                  /\ LeadingDigits(s, p(i)) >= 6}
  IN  IF starts = {} THEN None
      ELSE LET i == Min(starts)
           IN  Some(Slice(s, p(i), p(i) + LeadingDigits(s, p(i)) - 1))

\* /Melhor dia de compra:\s*(\d{1,2})/i
MatchBestDay(s) ==
  LET f == FoldText(s)
      label == <<"melhor", " ", "dia", " ", "de", " ", "compra", ":">>
      p(i) == i + 8 + LeadingSpaces(s, i + 8)
      starts == {i \in DOMAIN s : LitAt(f, label, i) /\ IsDigit(At(s, p(i)))}
  IN  IF starts = {} THEN None
      ELSE LET i == Min(starts)
           IN  Some(Slice(s, p(i), p(i) + (IF LeadingDigits(s, p(i)) >= 2 THEN 1 ELSE 0)))

\* /Débito automático:\s*(Ativado|Desativado)/i
MatchAutoDebit(s) ==
  LET f == FoldText(s)
      label == <<"débito", " ", "automático", ":">>
      p(i) == i + 4 + LeadingSpaces(s, i + 4)
      starts == {i \in DOMAIN s : /\ LitAt(f, label, i)
                                  /\ At(f, p(i)) \in {"ativado", "desativado"}}
  IN  IF starts = {} THEN None ELSE Some(s[p(Min(starts))])

\* /Anuidade:\s*([^|]+)/i at position i: \s* gives one space back when
\* nothing else is left for the capture.
AnnualFeeAt(s, f, i) ==
  LET sp == LeadingSpaces(s, i + 2)
      p == i + 2 + sp
      bars == {q \in p..Len(s) : s[q] = "|"}
      q == IF bars = {} THEN Len(s) + 1 ELSE Min(bars)
  IN  IF LitAt(f, <<"anuidade", ":">>, i)
      THEN IF q > p THEN Slice(s, p, q - 1)
           ELSE IF sp >= 1 THEN <<" ">>
           ELSE <<>>
      ELSE <<>>

MatchAnnualFee(s) ==
  LET f == FoldText(s)
      starts == {i \in DOMAIN s : AnnualFeeAt(s, f, i) /= <<>>}
  IN  IF starts = {} THEN None ELSE Some(AnnualFeeAt(s, f, Min(starts)))

\* C6BankStatementParser.normalizeAnnualFee
normalizeAnnualFee(value) ==
  IF value = None \/ Val(value) = <<>> THEN None
  ELSE LET trimmed == Trim(Val(value))
       IN  IF trimmed = <<>> THEN None
           ELSE IF HasWord(FoldText(trimmed), {"isento"}) THEN Some(<<"Exempt">>)
           ELSE Some(trimmed)

\* /Limite\s+(?:words).*R\$\s*([\d.,]+)/i: .* is greedy, so the value is the
\* one after the last R$ of the row that a value follows.
MatchLimit(s, words) ==
  LET f == FoldText(s)
      after(i) == i + 2 + LeadingSpaces(s, i + 1)
      values(i) == {q \in after(i)..Len(s) : CurrencyValueAt(s, f, q) /= <<>>}
      starts == {i \in DOMAIN s : /\ f[i] = "limite"
                                  /\ LeadingSpaces(s, i + 1) >= 1
                                  /\ At(f, after(i) - 1) \in words
                                  /\ values(i) /= {}}
  IN  IF starts = {} THEN None
      ELSE Some(CurrencyValueAt(s, f, Max(values(Min(starts)))))

EmptyHeader ==
  [cardholderName |-> None, closingDate |-> None, dueDate |-> None,
   invoiceNumber |-> None, totalAmount |-> None, minimumPayment |-> None,
   bestPurchaseDay |-> None, autoDebit |-> None, annualFee |-> None,
   creditLimit |-> None, availableLimit |-> None, year |-> None,
   closingMonth |-> None]

\* !x for a string-valued and for a number-valued field
FalsyText(o) == o = None \/ Val(o) = <<>>
FalsyNumber(o) == o = None \/ Val(o) = 0

\* The eleven blocks of the loop body of extractHeader, in their order; each
\* takes the header so far and the row text.
HdrCardholder(r, text) ==
  IF FalsyText(r.cardholderName) /\ IsCardholderCandidate(Trim(text))
  THEN [r EXCEPT !.cardholderName = Some(Trim(text))]
  ELSE r

HdrClosing(r, text, now) ==
  IF FalsyText(r.closingDate) /\ MatchClosing(text) /= None
  THEN LET closingDate == parseDateValue(Val(MatchClosing(text)), None, now)
       IN  [r EXCEPT !.closingDate = closingDate,
                     !.year = extractYear(closingDate),
                     !.closingMonth = extractMonth(closingDate)]
  ELSE r

HdrDue(r, text, now) ==
  IF FalsyText(r.dueDate) /\ MatchDue(text) /= None
  THEN LET parsed == parseDateValue(Val(MatchDue(text)), r.year, now)
       IN  IF ~FalsyText(parsed)
           THEN [r EXCEPT !.dueDate = parsed,
                          !.year = IF r.year /= None THEN r.year ELSE extractYear(parsed)]
           ELSE r
  ELSE r

HdrTotal(r, text) ==
  IF FalsyNumber(r.totalAmount) /\ MatchLabelledCurrency(text, <<"valor", " ", "da", " ", "fatura", ":">>) /= None
  THEN [r EXCEPT !.totalAmount =
          parseCurrency(MatchLabelledCurrency(text, <<"valor", " ", "da", " ", "fatura", ":">>))]
  ELSE r

HdrMinimum(r, text) ==
  IF FalsyNumber(r.minimumPayment) /\ MatchMinimum(text) /= None
  THEN [r EXCEPT !.minimumPayment = parseCurrency(MatchMinimum(text))]
  ELSE r

HdrInvoice(r, text) ==
  IF FalsyText(r.invoiceNumber) /\ MatchInvoice(text) /= None
  THEN [r EXCEPT !.invoiceNumber = Some(Trim(Val(MatchInvoice(text))))]
  ELSE r

HdrBestDay(r, text) ==
  IF r.bestPurchaseDay = None /\ MatchBestDay(text) /= None
  THEN [r EXCEPT !.bestPurchaseDay = Some(DigitsValue(Val(MatchBestDay(text))))]
  ELSE r

HdrAutoDebit(r, text) ==
  IF r.autoDebit = None /\ MatchAutoDebit(text) /= None
  THEN [r EXCEPT !.autoDebit =
          Some(IF Fold(Val(MatchAutoDebit(text))) = "ativado" THEN "Enabled" ELSE "Disabled")]
  ELSE r

HdrAnnualFee(r, text) ==
  IF FalsyText(r.annualFee) /\ MatchAnnualFee(text) /= None
  THEN [r EXCEPT !.annualFee = normalizeAnnualFee(MatchAnnualFee(text))]
  ELSE r

HdrCreditLimit(r, text) ==
  IF FalsyNumber(r.creditLimit) /\ MatchLimit(text, {"total", "crédito"}) /= None
  THEN [r EXCEPT !.creditLimit = parseCurrency(MatchLimit(text, {"total", "crédito"}))]
  ELSE r

HdrAvailableLimit(r, text) ==
  IF FalsyNumber(r.availableLimit) /\ MatchLimit(text, {"disponível"}) /= None
  THEN [r EXCEPT !.availableLimit = parseCurrency(MatchLimit(text, {"disponível"}))]
  ELSE r

\* One iteration of the loop of extractHeader: the header after the row.
C6HeaderRow(result, text, now) ==
  IF text = <<>> THEN result
  ELSE HdrAvailableLimit(
         HdrCreditLimit(
           HdrAnnualFee(
             HdrAutoDebit(
               HdrBestDay(
                 HdrInvoice(
                   HdrMinimum(
                     HdrTotal(
                       HdrDue(
                         HdrClosing(
                           HdrCardholder(result, text),
                           text, now),
                         text, now),
                       text),
                     text),
                   text),
                 text),
               text),
             text),
           text),
         text)

(***************************************************************************)
(* The bank-specific card-block segmenter (extractCardBlocks).             *)
(***************************************************************************)

\* SUBTOTAL_REGEX = /Subtotal\s+deste\s+cartão\s+R\$\s*([\d.,]+)/i at position
\* i: None, or the match's first and last position and its capture.
SubtotalAt(s, f, i) ==
  LET s1 == LeadingSpaces(s, i + 1)
      pDeste == i + 1 + s1
      s2 == LeadingSpaces(s, pDeste + 1)
      pCartao == pDeste + 1 + s2
      s3 == LeadingSpaces(s, pCartao + 1)
      pR == pCartao + 1 + s3
      pValue == pR + 2 + LeadingSpaces(s, pR + 2)
  IN  IF /\ At(f, i) = "subtotal" /\ s1 >= 1
         /\ At(f, pDeste) = "deste" /\ s2 >= 1
         /\ At(f, pCartao) = "cartão" /\ s3 >= 1
         /\ CurrencyValueAt(s, f, pR) /= <<>>
      THEN Some([from |-> i,
                 to |-> pValue + LeadingNumeric(s, pValue) - 1,
                 amount |-> CurrencyValueAt(s, f, pR)])
      ELSE None

\* text.match(SUBTOTAL_REGEX): the leftmost match, or None.
MatchSubtotal(s) ==
  LET f == FoldText(s)
      starts == {i \in DOMAIN s : SubtotalAt(s, f, i) /= None}
  IN  IF starts = {} THEN None ELSE SubtotalAt(s, f, Min(starts))

\* VALUE_WITH_CURRENCY_REGEX = /R\$\s*([\d.,]+)/i .test(s)
VALUE_WITH_CURRENCY_REGEX(s) ==
  \E i \in DOMAIN s : CurrencyValueAt(s, FoldText(s), i) /= <<>>

\* The leading capital letters of a word that is not all capitals: what
\* [A-ZÀ-Ú\s]+ takes of it.
UpperPrefix(w) ==
  CASE w \in UpperWords -> <<w>>
    [] w = "Final" -> <<"F">>
    [] w = "Loja" -> <<"L">>
    [] w = "Visa" -> <<"V">>
    [] w = "Mastercard" -> <<"M">>
    [] w = "Cartão" -> <<"C">>
    [] w = "Principal" -> <<"P">>
    [] w = "Adicional" -> <<"A">>
    [] OTHER -> <<>>

\* [A-ZÀ-Ú\s]* from position i on.
RECURSIVE UpperRun(_, _)
UpperRun(s, i) ==
  IF i > Len(s) THEN <<>>
  ELSE IF IsSpace(s[i]) \/ s[i] \in UpperWords THEN <<s[i]>> \o UpperRun(s, i + 1)
  ELSE UpperPrefix(s[i])

\* cardName.match(/-\s*([A-ZÀ-Ú\s]+)/): the capture of the leftmost match.
MatchHolder(s) ==
  LET starts == {i \in DOMAIN s : s[i] = "-" /\ UpperRun(s, i + 1) /= <<>>}
  IN  IF starts = {} THEN None
      ELSE LET i == Min(starts)
               p == i + 1 + LeadingSpaces(s, i + 1)
           IN  Some(IF UpperRun(s, p) /= <<>> THEN UpperRun(s, p) ELSE <<" ">>)

\* cardName.match(/Final\s*(\d{4})/i)
MatchLastDigits(s) ==
  LET f == FoldText(s)
      p(i) == i + 1 + LeadingSpaces(s, i + 1)
      starts == {i \in DOMAIN s : f[i] = "final" /\ LeadingDigits(s, p(i)) >= 4}
  IN  IF starts = {} THEN None
      ELSE Some(Slice(s, p(Min(starts)), p(Min(starts)) + 3))

\* C6BankStatementParser.parseCardHeader
parseCardHeader(ln) ==
  LET hits == {k \in DOMAIN ln.chunks : VALUE_WITH_CURRENCY_REGEX(ln.chunks[k].text)}
      infoChunks == IF hits /= {}
                    THEN Slice(ln.chunks, Min(hits) + 1, Len(ln.chunks))
                    ELSE Slice(ln.chunks, 2, Len(ln.chunks))
      m == Val(MatchSubtotal(ln.text))
      cardName == IF infoChunks /= <<>> THEN Trim(infoChunks[1].text)
                  ELSE Trim(Slice(ln.text, 1, m.from - 1)
                            \o Slice(ln.text, m.to + 1, Len(ln.text)))
      typeText == Trim(JoinWith([k \in 1..(Len(infoChunks) - 1) |->
                                   Trim(infoChunks[k + 1].text)], <<" ">>))
      holderMatch == MatchHolder(cardName)
  IN  [cardName |-> cardName,
       cardholder |-> IF holderMatch /= None THEN Some(Trim(Val(holderMatch))) ELSE None,
       lastDigits |-> MatchLastDigits(cardName),
       cardType |-> IF typeText = <<>> THEN None ELSE Some(typeText)]

\* /Transações dos cartões adicionais/i.test(text)
IsAdditionalTitle(s) ==
  FindFrom(FoldText(s), <<"transações", " ", "dos", " ", "cartões", " ", "adicionais">>, 1) /= 0

IsPrincipalTitleNever(s) == FALSE

\* /Transações do cartão principal/i.test(text)
IsPrincipalTitle(s) ==
  FindFrom(FoldText(s), <<"transações", " ", "do", " ", "cartão", " ", "principal">>, 1) /= 0

\* /^Valores em reais/i.test(text)
IsValuesNote(s) == LitAt(FoldText(s), <<"valores", " ", "em", " ", "reais">>, 1)

(***************************************************************************)
(* The generic parser (LocalStatementParser).                               *)
(***************************************************************************)

\* LocalStatementParser.parseDate, with DATE_REGEX
parseDate(value, fallbackYear, now) ==
  IF value = None \/ Val(value) = <<>> THEN None
  ELSE LET match == MatchNumericDate(Trim(Val(value)))
       IN  IF match = None THEN None
           ELSE LET m == Val(match)
                    year == IF m.yy = <<>>
                            THEN NatToText(IF fallbackYear /= None /\ Val(fallbackYear) /= 0
                                           THEN Val(fallbackYear) ELSE now)
                            ELSE IF Len(m.yy) = 2 THEN <<"2", "0">> \o m.yy
                            ELSE m.yy
                IN  Some(IsoDate(year, m.mm, m.dd))

\* (\d{2}[-/]\d{2}(?:[-/]\d{2,4})?) at position p: the capture or <<>>.
NumericDateAt(s, p) ==
  LET sep(c) == c \in {"/", "-"}
      ny == LeadingDigits(s, p + 6)
  IN  IF /\ IsDigit(At(s, p)) /\ IsDigit(At(s, p + 1))
         /\ sep(At(s, p + 2))
         /\ IsDigit(At(s, p + 3)) /\ IsDigit(At(s, p + 4))
      THEN IF sep(At(s, p + 5)) /\ ny >= 2
           THEN Slice(s, p, p + 5 + (IF ny > 4 THEN 4 ELSE ny))
           ELSE Slice(s, p, p + 4)
      ELSE <<>>

\* \s*[-:]\s* from position p: the position after it, or 0.
SeparatorEnd(s, p) ==
  LET q == p + LeadingSpaces(s, p)
  IN  IF At(s, q) \in {"-", ":"} THEN q + 1 + LeadingSpaces(s, q + 1) ELSE 0

\* The end of the words ws, one or more spaces apart (w1\s+w2...), when they
\* stand at position i of the folded text: the position after them, or 0.
RECURSIVE WordsEnd(_, _, _)
WordsEnd(f, ws, i) ==
  IF At(f, i) /= ws[1] THEN 0
  ELSE IF Len(ws) = 1 THEN i + 1
  ELSE IF LeadingSpaces(f, i + 1) = 0 THEN 0
  ELSE WordsEnd(f, Tail(ws), i + 1 + LeadingSpaces(f, i + 1))

\* The end of the first of the alternatives (each a sequence of words) that
\* stands at position i, or 0.
RECURSIVE LabelEnd(_, _, _)
LabelEnd(f, labels, i) ==
  IF labels = <<>> THEN 0
  ELSE IF WordsEnd(f, labels[1], i) /= 0 THEN WordsEnd(f, labels[1], i)
  ELSE LabelEnd(f, Tail(labels), i)

\* (label)\s*[-:]\s*(date): the date of the leftmost match, or None.
MatchLabelledDate(s, labels) ==
  LET f == FoldText(s)
      date(i) == IF LabelEnd(f, labels, i) = 0 \/ SeparatorEnd(s, LabelEnd(f, labels, i)) = 0
                 THEN <<>>
                 ELSE NumericDateAt(s, SeparatorEnd(s, LabelEnd(f, labels, i)))
      starts == {i \in DOMAIN s : date(i) /= <<>>}
  IN  IF starts = {} THEN None ELSE Some(date(Min(starts)))

\* (label)\s*[-:]\s*(.+) : the rest of the row after the label and the
\* separator; a capture that would be empty takes back the last space that
\* \s* had consumed.
RestAfterSeparator(s, labels) ==
  LET f == FoldText(s)
      p(i) == IF LabelEnd(f, labels, i) = 0 THEN 0
              ELSE SeparatorEnd(s, LabelEnd(f, labels, i))
      rest(i) == IF p(i) = 0 THEN <<>>
                 ELSE IF p(i) <= Len(s) THEN Slice(s, p(i), Len(s))
                 ELSE IF IsSpace(At(s, Len(s))) THEN <<" ">>
                 ELSE <<>>
      starts == {i \in DOMAIN s : rest(i) /= <<>>}
  IN  IF starts = {} THEN None ELSE Some(rest(Min(starts)))

\* (label)\s*[-:]?\s*([^\s].*) : the rest of the row from the first symbol
\* after the label, the optional separator and the spaces; when nothing
\* follows the separator, the capture starts at the separator itself.
ValueAfterLabel(s, labels) ==
  LET f == FoldText(s)
      q(i) == LabelEnd(f, labels, i) + LeadingSpaces(s, LabelEnd(f, labels, i))
      p(i) == IF SeparatorEnd(s, q(i)) /= 0 /\ SeparatorEnd(s, q(i)) <= Len(s)
              THEN SeparatorEnd(s, q(i))
              ELSE q(i)
      rest(i) == IF LabelEnd(f, labels, i) = 0 THEN <<>> ELSE Slice(s, p(i), Len(s))
      starts == {i \in DOMAIN s : rest(i) /= <<>>}
  IN  IF starts = {} THEN None ELSE Some(rest(Min(starts)))

\* /(BRL|USD|EUR|R\$)/i : the leftmost match, upper-cased.
MatchCurrencyCode(s) ==
  LET f == FoldText(s)
      starts == {i \in DOMAIN s : f[i] \in {"brl", "usd", "eur"} \/ LitAt(f, <<"r", "$">>, i)}
  IN  IF starts = {} THEN None
      ELSE LET w == f[Min(starts)]
           IN  Some(CASE w = "brl" -> "BRL" [] w = "usd" -> "USD"
                      [] w = "eur" -> "EUR" [] w = "r" -> "R$")

\* n[ºo.] at position i of the folded text: its length in symbols, or 0.
NumberSignLen(f, i) ==
  IF At(f, i) \in {"no", "nº"} THEN 1
  ELSE IF At(f, i) = "n" /\ At(f, i + 1) = "." THEN 2
  ELSE 0

\* (fatura\s*n[ºo.]|n[ºo.]\s+da\s+fatura|número\s+da\s+fatura) at position i:
\* the position after it, or 0.
InvoiceLabelEnd(f, i) ==
  LET p == i + 1 + LeadingSpaces(f, i + 1)
      q == i + NumberSignLen(f, i)
  IN  IF At(f, i) = "fatura" /\ NumberSignLen(f, p) /= 0 THEN p + NumberSignLen(f, p)
      ELSE IF NumberSignLen(f, i) /= 0 /\ LeadingSpaces(f, q) >= 1
              /\ WordsEnd(f, <<"da", "fatura">>, q + LeadingSpaces(f, q)) /= 0
           THEN WordsEnd(f, <<"da", "fatura">>, q + LeadingSpaces(f, q))
      ELSE WordsEnd(f, <<"número", "da", "fatura">>, i)

\* The number of consecutive symbols of [0-9a-z-] (i flag) from position i on.
RECURSIVE LeadingInvoiceChars(_, _)
LeadingInvoiceChars(s, i) ==
  IF IsDigit(At(s, i)) \/ At(s, i) = "-" \/ (i <= Len(s) /\ IsPlainWord(s[i]))
  THEN 1 + LeadingInvoiceChars(s, i + 1)
  ELSE 0

\* /(...)\s*[-:]\s*([0-9a-z-]+)/i : the capture of the leftmost match, or None.
MatchLocalInvoice(s) ==
  LET f == FoldText(s)
      p(i) == IF InvoiceLabelEnd(f, i) = 0 THEN 0 ELSE SeparatorEnd(s, InvoiceLabelEnd(f, i))
      starts == {i \in DOMAIN s : p(i) /= 0 /\ LeadingInvoiceChars(s, p(i)) >= 1}
  IN  IF starts = {} THEN None
      ELSE LET q == p(Min(starts))
           IN  Some(Slice(s, q, q + LeadingInvoiceChars(s, q) - 1))

LocalEmptyHeader ==
  [cardholder |-> None, closingDate |-> None, dueDate |-> None,
   invoiceNumber |-> None, currency |-> None, totalAmount |-> None,
   minimumPayment |-> None, year |-> None]

TotalLabels ==
  <<<<"total", "da", "fatura">>, <<"total", "a", "pagar">>, <<"total", "geral">>,
    <<"valor", "total">>>>

MinimumLabels == <<<<"pagamento", "mínimo">>, <<"valor", "mínimo">>>>

\* The seven blocks of the loop body of LocalStatementParser.extractHeader.
LocalHdrCardholder(r, text) ==
  LET m == RestAfterSeparator(text, <<<<"titular">>, <<"nome", "do", "titular">>,
                                      <<"cliente">>>>)
  IN  IF m /= None /\ FalsyText(r.cardholder)
      THEN [r EXCEPT !.cardholder = Some(Trim(Val(m)))]
      ELSE r

LocalHdrClosing(r, text, now) ==
  LET m == MatchLabelledDate(text, <<<<"data", "de", "fechamento">>, <<"fechamento">>>>)
  IN  IF m /= None /\ FalsyText(r.closingDate)
      THEN [r EXCEPT !.closingDate = parseDate(m, None, now),
                     !.year = extractYear(parseDate(m, None, now))]
      ELSE r

LocalHdrDue(r, text, now) ==
  LET m == MatchLabelledDate(text, <<<<"vencimento">>, <<"pagamento", "até">>>>)
  IN  IF m /= None /\ FalsyText(r.dueDate)
      THEN [r EXCEPT !.dueDate = parseDate(m, None, now),
                     !.year = IF r.year /= None THEN r.year
                              ELSE extractYear(parseDate(m, None, now))]
      ELSE r

LocalHdrInvoice(r, text) ==
  IF MatchLocalInvoice(text) /= None /\ FalsyText(r.invoiceNumber)
  THEN [r EXCEPT !.invoiceNumber = Some(Trim(Val(MatchLocalInvoice(text))))]
  ELSE r

LocalHdrCurrency(r, text) ==
  IF MatchCurrencyCode(text) /= None /\ r.currency = None
  THEN [r EXCEPT !.currency =
          Some(IF Val(MatchCurrencyCode(text)) = "R$" THEN "BRL"
               ELSE Val(MatchCurrencyCode(text)))]
  ELSE r

LocalHdrTotal(r, text) ==
  LET m == ValueAfterLabel(text, TotalLabels)
  IN  IF m /= None /\ FalsyNumber(r.totalAmount) /\ parseCurrency(m) /= None
      THEN [r EXCEPT !.totalAmount = parseCurrency(m)]
      ELSE r

LocalHdrMinimum(r, text) ==
  LET m == ValueAfterLabel(text, MinimumLabels)
  IN  IF m /= None /\ FalsyNumber(r.minimumPayment) /\ parseCurrency(m) /= None
      THEN [r EXCEPT !.minimumPayment = parseCurrency(m)]
      ELSE r

\* One iteration of the loop of LocalStatementParser.extractHeader.
LocalHeaderRow(result, text, now) ==
  LocalHdrMinimum(
    LocalHdrTotal(
      LocalHdrCurrency(
        LocalHdrInvoice(
          LocalHdrDue(
            LocalHdrClosing(
              LocalHdrCardholder(result, text),
              text, now),
            text, now),
          text),
        text),
      text),
    text)

\* [...line.chunks].sort((a, b) => a.x - b.x): a stable sort by x.
RECURSIVE InsertByX(_, _)
InsertByX(sorted, c) ==
  IF sorted = <<>> THEN <<c>>
  ELSE IF sorted[Len(sorted)].x <= c.x THEN Append(sorted, c)
  ELSE Append(InsertByX(Slice(sorted, 1, Len(sorted) - 1), c), sorted[Len(sorted)])

RECURSIVE SortByX(_)
SortByX(chunks) ==
  IF chunks = <<>> THEN <<>>
  ELSE InsertByX(SortByX(Slice(chunks, 1, Len(chunks) - 1)), chunks[Len(chunks)])

\* LocalStatementParser.combineAmountChunks
combineAmountChunks(chunks) ==
  LET lastChunk == chunks[Len(chunks)]
      raw == IF Len(chunks) > 1
             THEN chunks[Len(chunks) - 1].text \o lastChunk.text
             ELSE lastChunk.text
  IN  SelectSeq(raw, LAMBDA c : ~IsSpace(c))

\* LocalStatementParser.buildDescription
LocalbuildDescription(chunks) ==
  IF Len(chunks) <= 2 THEN <<>>
  ELSE buildDescription(Slice(chunks, 2, Len(chunks) - 1))

LocalAdjustmentWords == {"ajuste", "ajustado", "compensação"}

\* LocalStatementParser.determineTransactionType
LocaldetermineTransactionType(description) ==
  LET normalized == FoldText(description)
  IN  IF HasWord(normalized, RefundWords) THEN "refund"
      ELSE IF HasWord(normalized, PaymentWords \ {"pix"}) THEN "payment"
      ELSE IF HasWord(normalized, InstallmentWords) THEN "installment"
      ELSE IF HasWord(normalized, FeeWords) THEN "fee"
      ELSE IF HasWord(normalized, LocalAdjustmentWords) THEN "adjustment"
      ELSE "purchase"

LocalLineTransactionKeepNull(ln, fallbackYear, now) ==
  IF Len(ln.chunks) < 3 THEN <<>>
  ELSE
    LET sortedChunks == SortByX(ln.chunks)
        dateCandidate == sortedChunks[1].text
        amountText == combineAmountChunks(sortedChunks)
        description == LocalbuildDescription(sortedChunks)
    IN  IF MatchNumericDate(dateCandidate) = None THEN <<>>
        ELSE IF ~AMOUNT_REGEX(amountText) THEN <<>>
        ELSE IF description = <<>> THEN <<>>
        ELSE <<[date |-> parseDate(Some(dateCandidate), fallbackYear, now),
                description |-> description,
                amount |-> parseCurrency(Some(amountText)),
                currency |-> FallbackCurrency,
                transaction_type |-> LocaldetermineTransactionType(description),
                installment |-> [current |-> None, total |-> None]]>>

\* The body of the loop of LocalStatementParser.extractTransactions: the
\* transaction the row yields, as a sequence of 0 or 1 elements.
LocalLineTransaction(ln, fallbackYear, now) ==
  IF Len(ln.chunks) < 3 THEN <<>>
  ELSE
    LET sortedChunks == SortByX(ln.chunks)
        dateCandidate == sortedChunks[1].text
        amountText == combineAmountChunks(sortedChunks)
        description == LocalbuildDescription(sortedChunks)
        amount == parseCurrency(Some(amountText))
    IN  IF MatchNumericDate(dateCandidate) = None THEN <<>>
        ELSE IF ~AMOUNT_REGEX(amountText) THEN <<>>
        ELSE IF description = <<>> THEN <<>>
        ELSE IF amount = None THEN <<>>
        ELSE <<[date |-> parseDate(Some(dateCandidate), fallbackYear, now),
                description |-> description,
                amount |-> amount,
                currency |-> FallbackCurrency,
                transaction_type |-> LocaldetermineTransactionType(description),
                installment |-> [current |-> None, total |-> None]]>>

(***************************************************************************)
(* Documents.  A PDF buffer is the sequence of the rows the extractor and  *)
(* the normalizer produce from it (the parsers' tests stub both and hand   *)
(* the parser its rows); a row is named, and RowOf gives the row.          *)
(***************************************************************************)
T_0_00 == <<"0", ",", "0", "0">>
T_5_00 == <<"5", ",", "0", "0">>
T_6_00 == <<"6", ",", "0", "0">>
T_9_00 == <<"9", ",", "0", "0">>
T_15_00 == <<"1", "5", ",", "0", "0">>
T_20_00 == <<"2", "0", ",", "0", "0">>
T_Bad == <<"-", "-", "1", ",", "0", "0">>
T_SubtotalLabel == <<"Subtotal", " ", "deste", " ", "cartão">>
T_CardLeandro ==
  <<"Cartão", " ", "-", " ", "LEANDRO", " ", "Final", " ", "1", "1", "1", "1">>

RowOf(id) ==
  CASE id = "closing" ->
         line(<<<<"Período">>, <<"até">>,
                <<"1", "5", "/", "0", "1", "/", "2", "0", "2", "5">>>>)
    [] id = "closingNoYear" ->
         line(<<<<"Período">>, <<"até">>, <<"2", "6", "/", "0", "9">>>>)
    [] id = "total0" ->
         line(<<<<"Valor">>, <<"da">>, <<"fatura", ":">>, <<"R", "$">>, T_0_00>>)
    [] id = "total20" ->
         line(<<<<"Valor">>, <<"da">>, <<"fatura", ":">>, <<"R", "$">>, T_20_00>>)
    [] id = "principal" ->
         line(<<<<"Transações">>, <<"do">>, <<"cartão">>, <<"principal">>>>)
    [] id = "adicionais" ->
         line(<<<<"Transações">>, <<"dos">>, <<"cartões">>, <<"adicionais">>>>)
    [] id = "marker15" ->
         line(<<T_SubtotalLabel, <<"R", "$", " ">> \o T_15_00, T_CardLeandro,
                <<"Mastercard">>>>)
    [] id = "markerNoValue" ->
         line(<<T_SubtotalLabel, <<"R", "$", " ", ",">>>>)
    [] id = "titleAndMarker" ->
         line(<<<<"Transações", " ", "do", " ", "cartão", " ", "principal">>,
                T_SubtotalLabel, <<"R", "$", " ">> \o T_5_00>>)
    [] id = "tx6and9" ->
         line(<<<<"0", "5", " ", "jan">>, <<"Loja">>, T_6_00,
                <<"1", "5", " ", "dez">>, <<"Loja">>, T_9_00>>)
    [] id = "tx5" ->
         line(<<<<"1", "2", " ", "jan">>, <<"Loja">>, T_5_00>>)
    [] id = "refund5" ->
         line(<<<<"1", "2", " ", "jan">>, <<"estorno">>, T_5_00>>)
    [] id = "noteAndTx" ->
         line(<<<<"Valores", " ", "em", " ", "reais">>,
                <<"1", "2", " ", "jan">>, <<"Loja">>, T_5_00>>)
    [] id = "txBad" ->
         line(<<<<"1", "2", " ", "jan">>, <<"Loja">>, T_Bad,
                <<"1", "5", " ", "dez">>, <<"Loja">>>>)
    [] id = "fechamento" ->
         line(<<<<"Fechamento", ":">>, <<"1", "5", "/", "0", "1", "/", "2", "5">>>>)
    [] id = "valorTotal0" ->
         line(<<<<"Valor">>, <<"total", ":">>, T_0_00>>)
    [] id = "valorTotal20" ->
         line(<<<<"Valor">>, <<"total", ":">>, T_20_00>>)
    [] id = "row6" ->
         line(<<<<"0", "5", "/", "0", "1">>, <<"Loja">>, T_6_00>>)
    [] id = "row9" ->
         line(<<<<"1", "0", "/", "1", "2", "/", "2", "4">>, <<"estorno">>, T_9_00>>)
    [] id = "rowBad" ->
         line(<<<<"1", "2", "/", "0", "1">>, <<"Loja">>, T_Bad>>)
    [] id = "totalBad" ->
         line(<<<<"Valor">>, <<"da">>, <<"fatura", ":">>, <<"R", "$">>, <<",">>>>)
    [] id = "minimum5" ->
         line(<<<<"Pagamento">>, <<"mínimo">>, <<"R", "$">>, T_5_00>>)
    [] id = "footer15" ->
         line(<<<<"VALOR">>, <<"TOTAL">>, T_15_00>>)
    [] id = "footer20" ->
         line(<<<<"VALOR">>, <<"TOTAL">>, T_20_00>>)
    [] id = "footerBad" ->
         line(<<<<"VALOR">>, <<"TOTAL">>, <<",">>>>)
    [] id = "footerMinimum9" ->
         line(<<<<"PAGAMENTO">>, <<"MÍNIMO">>, T_9_00>>)
    [] id = "footerMinimumBad" ->
         line(<<<<"PAGAMENTO">>, <<"MÍNIMO">>, <<",">>>>)

\* The rows of a decoded document.
LinesOf(doc) == [i \in DOMAIN doc |-> RowOf(doc[i])]

\* All documents of at most n rows over the row names ids.
RECURSIVE DocsUpTo(_, _)
DocsUpTo(ids, n) ==
  IF n = 0 THEN {<<>>}
  ELSE LET shorter == DocsUpTo(ids, n - 1)
       IN  shorter \cup {Append(d, id) : d \in shorter, id \in ids}

MaxRows == 4
FirstYear == 2025
LastYear == 2026
DefaultMinimumTransactions == 3

C6Rows == {"closing", "total0", "total20", "marker15", "tx6and9", "tx5", "txBad"}
LocalRows == {"fechamento", "valorTotal0", "valorTotal20", "row6", "row9", "rowBad"}

(***************************************************************************)
(* The program.  One parser instance (kind, minimumTransactions) serves    *)
(* the calls of Calls.  parse is asynchronous: a call runs up to the await *)
(* of the extractor, and after the extractor resolves it runs its          *)
(* synchronous rest, one loop iteration per step; JavaScript runs one      *)
(* call's synchronous code at a time (running).  The local variables of    *)
(* that code are the frame: header .. transactions.                        *)
(***************************************************************************)
Calls == {1, 2}

VARIABLES
  now,                  \* the year of the wall clock
  kind,                 \* "c6": C6BankStatementParser, "local": LocalStatementParser
  minimumTransactions,  \* this.minimumTransactions
  pc,                   \* per call: where it stands
  buffer,               \* per call: the argument of parse
  pdf,                  \* per call: what extract resolved with (None before)
  result,               \* per call: what parse returned (None before)
  running,              \* the call whose synchronous code runs, or 0
  header,               \* extractHeader's result
  idx,                  \* the row the running loop is at
  blocks,               \* extractCardBlocks: blocks
  currentBlock,         \* extractCardBlocks: currentBlock (None: null)
  currentSection,       \* extractCardBlocks: currentSection
  collectingLines,      \* extractCardBlocks: collectingLines (row positions)
  transactions,         \* LocalStatementParser.extractTransactions: transactions
  currencyText,         \* the argument of a call of parseCurrency on its own
  currencyValue,        \* what that call returned: <<>> before, then <<amount>>
  document,             \* normalize: its argument (document.Pages)
  npc,                  \* normalize: where it stands
  pageIndex,            \* normalize: the page of the forEach (1-based)
  chunks,               \* groupChunksByLine: its argument, flattenPage's result
  gidx,                 \* groupChunksByLine: the chunk the loop is at
  grouped,              \* groupChunksByLine: lines (currentLine is the last)
  normLines,            \* normalize: lines
  thrown,               \* per call: what parse rejected with (None: nothing)
  options,              \* createDefaultStatementParserRegistry: its argument
  factories,            \* StatementParserRegistry: this.factories
  defaultBankKey,       \* StatementParserRegistry: this.defaultBankKey
  instances,            \* StatementParserRegistry: this.instances
  bankArg,              \* resolve: its argument (None before a call)
  resolved,             \* what resolve returned: <<>> before, then <<result>>
  request,              \* handle: the request
  hpc,                  \* handle: where it stands
  executed,             \* the arguments of the calls of useCase.execute
  responses,            \* what reply.status(..).send(..) was called with
  logged,               \* what request.log.error was called with
  argument,             \* the argument of a call of a function on its own
  returned,             \* what that call returned: <<>> before, then <<value>>
  services,             \* CompositeStatementExtractionService: this.services
  cpc,                  \* Composite extractFromPdf: where it stands
  position,             \* Composite extractFromPdf: the service the loop is at
  errors,               \* Composite extractFromPdf: errors
  invoked,              \* the services whose extractFromPdf was called, in order
  outcome,              \* what Composite extractFromPdf settled with (None before)
  constructed,          \* the bank keys whose factory was invoked, one per call
  epc,                  \* Pdf2JsonExtractor.extract: where it stands
  listeners,            \* the events the PDFParser has a listener for
  settled,              \* the promise of extract: None while pending
  events                \* what the PDFParser did so far, in order

frame == <<header, idx, blocks, currentBlock, currentSection, collectingLines, transactions>>
instance == <<kind, minimumTransactions>>
currency == <<currencyText, currencyValue>>
normalizer == <<document, npc, pageIndex, chunks, gidx, grouped, normLines>>
registry == <<options, factories, defaultBankKey, instances, bankArg, resolved,
              constructed>>
http == <<request, hpc, executed, responses, logged>>
service == <<registry, http>>
call == <<argument, returned>>
composite == <<services, cpc, position, errors, invoked, outcome>>
extractor == <<epc, listeners, settled, events>>
beside == <<composite, extractor>>
aside == <<call, beside>>
apart == <<currency, normalizer, thrown, service, aside>>
vars == <<now, kind, minimumTransactions, pc, buffer, pdf, result, running,
          header, idx, blocks, currentBlock, currentSection, collectingLines,
          transactions, currencyText, currencyValue,
          document, npc, pageIndex, chunks, gidx, grouped, normLines, thrown,
          options, factories, defaultBankKey, instances, bankArg, resolved,
          request, hpc, executed, responses, logged, argument, returned,
          services, cpc, position, errors, invoked, outcome, constructed,
          epc, listeners, settled, events>>

\* No call of a function on its own is under way.
NoCall ==
  /\ argument = None
  /\ returned = <<>>

\* No composite service is built.
NoComposite ==
  /\ services = <<>>
  /\ cpc = "absent"
  /\ position = 0
  /\ errors = <<>>
  /\ invoked = <<>>
  /\ outcome = None

\* No call of Pdf2JsonExtractor.extract on its own is under way.
NoExtractor ==
  /\ epc = "absent"
  /\ listeners = {}
  /\ settled = None
  /\ events = <<>>

NoBeside == NoComposite /\ NoExtractor

NoAside == NoCall /\ NoBeside

\* No registry is built.
NoRegistry ==
  /\ options = None
  /\ factories = <<>>
  /\ defaultBankKey = None
  /\ instances = <<>>
  /\ bankArg = None
  /\ resolved = <<>>
  /\ constructed = <<>>

\* No request has come in.
NoHttp ==
  /\ request = None
  /\ hpc = "absent"
  /\ executed = <<>>
  /\ responses = <<>>
  /\ logged = <<>>

NoService == NoRegistry /\ NoHttp

\* No call of normalize on its own is under way.
NoNormalizer ==
  /\ document = <<>>
  /\ npc = "absent"
  /\ pageIndex = 0
  /\ chunks = <<>>
  /\ gidx = 0
  /\ grouped = <<>>
  /\ normLines = <<>>

\* No call of parseCurrency on its own is under way.
NoCurrency ==
  /\ currencyText = None
  /\ currencyValue = <<>>

\* No call of parse has rejected.
NoThrown == thrown = [c \in Calls |-> None]

\* No synchronous code runs: the frame is gone.
NoFrame ==
  /\ header = EmptyHeader
  /\ idx = 0
  /\ blocks = <<>>
  /\ currentBlock = None
  /\ currentSection = "principal"
  /\ collectingLines = <<>>
  /\ transactions = <<>>

DropFrame ==
  /\ header' = EmptyHeader
  /\ idx' = 0
  /\ blocks' = <<>>
  /\ currentBlock' = None
  /\ currentSection' = "principal"
  /\ collectingLines' = <<>>
  /\ transactions' = <<>>

\* The rows the running call works on: normalize(pdf).
lines == LinesOf(Val(pdf[running]))

\* What extract(buffer) resolves with for call c: each call has its own
\* PDFParser, fed with its own buffer.
ExtractedShared(c) ==
  IF \E d \in Calls : d /= c /\ pc[d] = "extracting"
  THEN buffer[CHOOSE d \in Calls : d /= c /\ pc[d] = "extracting"]
  ELSE buffer[c]

Extracted(c) == buffer[c]

\* parse, up to `await this.extractor.extract(buffer)`.
Call(c) ==
  /\ running = 0
  /\ pc[c] = "idle"
  /\ pc' = [pc EXCEPT ![c] = "extracting"]
  /\ UNCHANGED <<now, instance, apart, buffer, pdf, result, running, frame>>

\* What the decoder reports with pdfParser_dataError or parseBuffer throws:
\* an Error, or a value that is none.
DecoderErrors ==
  {[isError |-> TRUE, message |-> <<"Invalid PDF structure">>],
   [isError |-> FALSE, message |-> <<"bad XRef entry">>]}

\* Pdf2JsonExtractor.extract, handleError: what the promise rejects with.
handleErrorAsIs(error) == error

handleError(error) ==
  IF error.isError THEN error
  ELSE [isError |-> TRUE, message |-> <<"Erro ao processar PDF: ">> \o error.message]

\* The extractor rejects: `await this.extractor.extract(buffer)` throws, and
\* parse, which catches nothing, rejects with the same error.
ExtractRejects(c) ==
  /\ running = 0
  /\ pc[c] = "extracting"
  /\ \E error \in DecoderErrors : thrown' = [thrown EXCEPT ![c] = Some(handleError(error))]
  /\ pc' = [pc EXCEPT ![c] = "rejected"]
  /\ UNCHANGED <<now, instance, currency, normalizer, service, aside, buffer, pdf, result,
                 running, frame>>

\* The extractor resolves; parse resumes with normalize and enters
\* extractHeader.
ExtractResolves(c) ==
  /\ running = 0
  /\ pc[c] = "extracting"
  /\ pdf' = [pdf EXCEPT ![c] = Some(Extracted(c))]
  /\ running' = c
  /\ pc' = [pc EXCEPT ![c] = "header"]
  /\ header' = IF kind = "c6" THEN EmptyHeader ELSE LocalEmptyHeader
  /\ idx' = 1
  /\ UNCHANGED <<now, instance, apart, buffer, result, blocks, currentBlock,
                 currentSection, collectingLines, transactions>>

(***************************************************************************)
(* C6BankStatementParser: extractHeader, extractCardBlocks and the         *)
(* assembly of the statement.                                              *)
(***************************************************************************)
C6HeaderStep ==
  /\ running /= 0 /\ kind = "c6" /\ pc[running] = "header"
  /\ idx <= Len(lines)
  /\ header' = C6HeaderRow(header, lines[idx].text, now)
  /\ idx' = idx + 1
  /\ UNCHANGED <<now, instance, apart, pc, buffer, pdf, result, running, blocks,
                 currentBlock, currentSection, collectingLines, transactions>>

\* extractHeader returns; extractCardBlocks starts.
C6HeaderReturn ==
  /\ running /= 0 /\ kind = "c6" /\ pc[running] = "header"
  /\ idx > Len(lines)
  /\ pc' = [pc EXCEPT ![running] = "blocks"]
  /\ idx' = 1
  /\ blocks' = <<>>
  /\ currentBlock' = None
  /\ currentSection' = "principal"
  /\ collectingLines' = <<>>
  /\ UNCHANGED <<now, instance, apart, buffer, pdf, result, running, header, transactions>>

\* The rows a block has collected.
CollectedLines(all, collecting) == [k \in DOMAIN collecting |-> all[collecting[k]]]

finalizeBlockTwice(blks, cur, collected, hdr, clock) ==
  IF cur = None THEN blks
  ELSE Append(Append(blks, Val(cur)),
              [Val(cur) EXCEPT !.transactions =
                 extractTransactionsFromLines(collected, hdr.year, hdr.closingMonth, clock)])

finalizeBlockNoTransactions(blks, cur, collected, hdr, clock) ==
  IF cur = None THEN blks ELSE Append(blks, Val(cur))

\* blocks after finalizeBlock()
finalizeBlock(blks, cur, collected, hdr, clock) ==
  IF cur = None THEN blks
  ELSE Append(blks,
              [Val(cur) EXCEPT !.transactions =
                 extractTransactionsFromLines(collected, hdr.year, hdr.closingMonth, clock)])

\* The block a subtotal row opens.
NewBlock(ln, section) ==
  LET block(m, card) ==
        [section |-> section,
         cardName |-> card.cardName,
         cardholder |-> card.cardholder,
         lastDigits |-> card.lastDigits,
         cardType |-> card.cardType,
         expectedSubtotal |-> parseCurrency(Some(m.amount)),
         rawSubtotalText |-> Slice(ln.text, m.from, m.to),
         transactions |-> <<>>]
  IN  block(Val(MatchSubtotal(ln.text)), parseCardHeader(ln))

segmentRowCollectsAlways(st, all, i, hdr, clock) ==
  LET ln == all[i]
      text == ln.text
  IN  IF text = <<>> THEN st
      ELSE IF IsAdditionalTitle(text) THEN [st EXCEPT !.currentSection = "adicionais"]
      ELSE IF IsPrincipalTitle(text) THEN [st EXCEPT !.currentSection = "principal"]
      ELSE IF MatchSubtotal(text) /= None
      THEN [st EXCEPT
              !.blocks = finalizeBlock(st.blocks, st.currentBlock,
                                       CollectedLines(all, st.collectingLines),
                                       hdr, clock),
              !.currentBlock = Some(NewBlock(ln, st.currentSection)),
              !.collectingLines = <<>>]
      ELSE IF ~IsValuesNote(text)
      THEN [st EXCEPT !.collectingLines = Append(st.collectingLines, i)]
      ELSE st

\* One iteration of the loop of extractCardBlocks, for the row at position i
\* of all: the loop's variables st after it.
segmentRow(st, all, i, hdr, clock) ==
  LET ln == all[i]
      text == ln.text
  IN  IF text = <<>> THEN st
      ELSE IF IsAdditionalTitle(text) THEN [st EXCEPT !.currentSection = "adicionais"]
      ELSE IF IsPrincipalTitle(text) THEN [st EXCEPT !.currentSection = "principal"]
      ELSE IF MatchSubtotal(text) /= None
      THEN [st EXCEPT
              !.blocks = finalizeBlock(st.blocks, st.currentBlock,
                                       CollectedLines(all, st.collectingLines),
                                       hdr, clock),
              !.currentBlock = Some(NewBlock(ln, st.currentSection)),
              !.collectingLines = <<>>]
      ELSE IF st.currentBlock /= None /\ ~IsValuesNote(text)
      THEN [st EXCEPT !.collectingLines = Append(st.collectingLines, i)]
      ELSE st

C6SegmentStep ==
  /\ running /= 0 /\ kind = "c6" /\ pc[running] = "blocks"
  /\ idx <= Len(lines)
  /\ idx' = idx + 1
  /\ \E st \in {segmentRow([blocks |-> blocks, currentBlock |-> currentBlock,
                             currentSection |-> currentSection,
                             collectingLines |-> collectingLines],
                            lines, idx, header, now)} :
        /\ blocks' = st.blocks
        /\ currentBlock' = st.currentBlock
        /\ currentSection' = st.currentSection
        /\ collectingLines' = st.collectingLines
  /\ UNCHANGED <<now, instance, apart, pc, buffer, pdf, result, running, header,
                 transactions>>

\* The loop is over: the last finalizeBlock(), and extractCardBlocks returns.
C6SegmentReturn ==
  /\ running /= 0 /\ kind = "c6" /\ pc[running] = "blocks"
  /\ idx > Len(lines)
  /\ blocks' = finalizeBlock(blocks, currentBlock,
                             CollectedLines(lines, collectingLines), header, now)
  /\ currentBlock' = None
  /\ collectingLines' = <<>>
  /\ pc' = [pc EXCEPT ![running] = "assemble"]
  /\ UNCHANGED <<now, instance, apart, buffer, pdf, result, running, header, idx,
                 currentSection, transactions>>

\* cardBlocks.flatMap((block) => block.transactions)
RECURSIVE allTransactions(_)
allTransactions(cardBlocks) ==
  IF cardBlocks = <<>> THEN <<>>
  ELSE cardBlocks[1].transactions \o allTransactions(Tail(cardBlocks))

\* allTransactions.length < this.minimumTransactions
BelowMinimumInclusive(count, minimum) == count <= minimum

BelowMinimum(count, minimum) == count < minimum

\* label\s+word\s*([\d.,]+), case-insensitive, where the second word is one of
\* words: the capture of the leftmost match, or None.
MatchTwoWordsValue(s, first, words) ==
  LET f == FoldText(s)
      second(i) == i + 1 + LeadingSpaces(s, i + 1)
      value(i) == second(i) + 1 + LeadingSpaces(s, second(i) + 1)
      starts == {i \in DOMAIN s : /\ f[i] = first
                                  /\ LeadingSpaces(s, i + 1) >= 1
                                  /\ At(f, second(i)) \in words
                                  /\ LeadingNumeric(s, value(i)) >= 1}
  IN  IF starts = {} THEN None
      ELSE LET v == value(Min(starts))
           IN  Some(Slice(s, v, v + LeadingNumeric(s, v) - 1))

\* FirstLabelledAmount that returns at the first row that matches, whether
\* its value parses or not.
RECURSIVE FirstLabelledMatch(_, _, _)
FirstLabelledMatch(rows, first, words) ==
  IF rows = <<>> THEN None
  ELSE LET m == MatchTwoWordsValue(rows[1].text, first, words)
       IN  IF m /= None THEN parseCurrency(m)
           ELSE FirstLabelledMatch(Tail(rows), first, words)

\* The first amount that the rows give for a two-word label.
RECURSIVE FirstLabelledAmount(_, _, _)
FirstLabelledAmount(rows, first, words) ==
  IF rows = <<>> THEN None
  ELSE LET m == MatchTwoWordsValue(rows[1].text, first, words)
       IN  IF m /= None /\ parseCurrency(m) /= None THEN parseCurrency(m)
           ELSE FirstLabelledAmount(Tail(rows), first, words)

\* C6BankStatementParser.extractInvoiceTotal
extractInvoiceTotal(rows) == FirstLabelledAmount(rows, "valor", {"total"})

\* C6BankStatementParser.extractMinimumPayment
extractMinimumPayment(rows) == FirstLabelledAmount(rows, "pagamento", {"minimo", "mínimo"})

\* block.transactions.reduce((acc, tx) => acc + this.getSignedAmount(tx), 0)
RECURSIVE signedTotal(_)
signedTotal(txs) ==
  IF txs = <<>> THEN 0 ELSE getSignedAmount(txs[1]) + signedTotal(Tail(txs))

Abs(n) == IF n < 0 THEN 0 - n ELSE n

\* Number(Math.abs(signedTotal).toFixed(2)), in cents
absoluteTotalSigned(txs) == signedTotal(txs)

absoluteTotal(txs) == Abs(signedTotal(txs))

\* subtotalDifference of a card summary
subtotalDifferenceReversed(block) ==
  IF block.expectedSubtotal /= None
  THEN Some(Val(block.expectedSubtotal) - absoluteTotal(block.transactions))
  ELSE None

subtotalDifference(block) ==
  IF block.expectedSubtotal /= None
  THEN Some(absoluteTotal(block.transactions) - Val(block.expectedSubtotal))
  ELSE None

\* One element of metadata.cardSummaries
cardSummary(block) ==
  [section |-> block.section,
   cardName |-> block.cardName,
   cardholder |-> block.cardholder,
   lastDigits |-> block.lastDigits,
   cardType |-> block.cardType,
   expectedSubtotal |-> block.expectedSubtotal,
   computedSubtotal |-> absoluteTotal(block.transactions),
   subtotalDifference |-> subtotalDifference(block),
   transactionCount |-> Len(block.transactions)]

\* One element of cards
statementCard(block) ==
  [card_type |-> block.cardType,
   last4_digits |-> block.lastDigits,
   cardholder |-> block.cardholder,
   is_additional |-> Some(block.section = "adicionais"),
   card_subtotal |-> block.expectedSubtotal,
   transactions |-> block.transactions]

\* cardBlocks.find(principal with lastDigits)?.lastDigits ?? null
mainCardLast4(cardBlocks) ==
  LET hits == {k \in DOMAIN cardBlocks :
                 /\ cardBlocks[k].section = "principal"
                 /\ ~FalsyText(cardBlocks[k].lastDigits)}
  IN  IF hits = {} THEN None ELSE cardBlocks[Min(hits)].lastDigits

\* The statement that C6BankStatementParser.parse builds.
C6Statement(hdr, cardBlocks, rows) ==
  [cardholder_name |-> hdr.cardholderName,
   main_card_last4 |-> mainCardLast4(cardBlocks),
   due_date |-> hdr.dueDate,
   closing_date |-> hdr.closingDate,
   total_amount_due |-> IF hdr.totalAmount /= None THEN hdr.totalAmount
                        ELSE extractInvoiceTotal(rows),
   minimum_payment |-> IF hdr.minimumPayment /= None THEN hdr.minimumPayment
                       ELSE extractMinimumPayment(rows),
   best_purchase_day |-> hdr.bestPurchaseDay,
   auto_debit |-> hdr.autoDebit,
   annual_fee |-> hdr.annualFee,
   credit_limit |-> hdr.creditLimit,
   available_limit |-> hdr.availableLimit,
   cards |-> [k \in DOMAIN cardBlocks |-> statementCard(cardBlocks[k])],
   metadata |-> [parser |-> "local:c6-bank",
                 source |-> "pdf2json",
                 lineCount |-> Len(rows),
                 invoiceNumber |-> hdr.invoiceNumber,
                 currency |-> None,
                 cardSummaries |-> [k \in DOMAIN cardBlocks |-> cardSummary(cardBlocks[k])]]]

\* What C6BankStatementParser.parse returns (without the echo of its rows and
\* the timing metrics).
C6Result(hdr, cardBlocks, rows, minimum) ==
  [statement |->
     IF BelowMinimum(Len(allTransactions(cardBlocks)), minimum) THEN None
     ELSE Some(C6Statement(hdr, cardBlocks, rows))]

\* The rest of C6BankStatementParser.parse: the minimum-transactions gate and
\* the statement; parse returns.
C6Assemble ==
  /\ running /= 0 /\ kind = "c6" /\ pc[running] = "assemble"
  /\ result' = [result EXCEPT ![running] =
       Some(C6Result(header, blocks, lines, minimumTransactions))]
  /\ pc' = [pc EXCEPT ![running] = "done"]
  /\ running' = 0
  /\ DropFrame
  /\ UNCHANGED <<now, instance, apart, buffer, pdf>>

(***************************************************************************)
(* LocalStatementParser: extractHeader, extractTransactions and the        *)
(* assembly of the statement.                                              *)
(***************************************************************************)
HeaderRows == 80

\* lines.slice(0, 80)
HeaderSlice(rows) == Slice(rows, 1, IF Len(rows) < HeaderRows THEN Len(rows) ELSE HeaderRows)

LocalHeaderStep ==
  /\ running /= 0 /\ kind = "local" /\ pc[running] = "header"
  /\ idx <= Len(HeaderSlice(lines))
  /\ header' = LocalHeaderRow(header, HeaderSlice(lines)[idx].text, now)
  /\ idx' = idx + 1
  /\ UNCHANGED <<now, instance, apart, pc, buffer, pdf, result, running, blocks,
                 currentBlock, currentSection, collectingLines, transactions>>

\* extractHeader returns; extractTransactions starts.
LocalHeaderReturn ==
  /\ running /= 0 /\ kind = "local" /\ pc[running] = "header"
  /\ idx > Len(HeaderSlice(lines))
  /\ pc' = [pc EXCEPT ![running] = "transactions"]
  /\ idx' = 1
  /\ transactions' = <<>>
  /\ UNCHANGED <<now, instance, apart, buffer, pdf, result, running, header, blocks,
                 currentBlock, currentSection, collectingLines>>

\* One iteration of the loop of extractTransactions.
LocalTransactionStep ==
  /\ running /= 0 /\ kind = "local" /\ pc[running] = "transactions"
  /\ idx <= Len(lines)
  /\ transactions' = transactions \o LocalLineTransaction(lines[idx], header.year, now)
  /\ idx' = idx + 1
  /\ UNCHANGED <<now, instance, apart, pc, buffer, pdf, result, running, header, blocks,
                 currentBlock, currentSection, collectingLines>>

\* The statement that LocalStatementParser.parse builds.
LocalStatement(hdr, txs, rows) ==
  [cardholder_name |-> hdr.cardholder,
   main_card_last4 |-> None,
   due_date |-> hdr.dueDate,
   closing_date |-> hdr.closingDate,
   total_amount_due |-> hdr.totalAmount,
   minimum_payment |-> hdr.minimumPayment,
   best_purchase_day |-> None,
   auto_debit |-> None,
   annual_fee |-> None,
   credit_limit |-> None,
   available_limit |-> None,
   cards |-> IF Len(txs) > 0
             THEN <<[card_type |-> None,
                     last4_digits |-> None,
                     cardholder |-> hdr.cardholder,
                     is_additional |-> None,
                     card_subtotal |-> None,
                     transactions |-> txs]>>
             ELSE <<>>,
   metadata |-> [parser |-> "local",
                 source |-> "pdf2json",
                 lineCount |-> Len(rows),
                 invoiceNumber |-> hdr.invoiceNumber,
                 currency |-> IF hdr.currency /= None THEN hdr.currency
                              ELSE Some(FallbackCurrency),
                 cardSummaries |-> <<>>]]

\* What LocalStatementParser.parse returns (without the echo of its rows and
\* the timing metrics).
LocalResult(hdr, txs, rows, minimum) ==
  [statement |->
     IF BelowMinimum(Len(txs), minimum) THEN None
     ELSE Some(LocalStatement(hdr, txs, rows))]

\* extractTransactions returns; the minimum-transactions gate and the
\* statement; parse returns.
LocalAssemble ==
  /\ running /= 0 /\ kind = "local" /\ pc[running] = "transactions"
  /\ idx > Len(lines)
  /\ result' = [result EXCEPT ![running] =
       Some(LocalResult(header, transactions, lines, minimumTransactions))]
  /\ pc' = [pc EXCEPT ![running] = "done"]
  /\ running' = 0
  /\ DropFrame
  /\ UNCHANGED <<now, instance, apart, buffer, pdf>>

\* A new year begins (between two turns of the event loop).
Tick ==
  /\ running = 0
  /\ now < LastYear
  /\ now' = now + 1
  /\ UNCHANGED <<instance, apart, pc, buffer, pdf, result, running, frame>>

(***************************************************************************)
(* The specifications.                                                     *)
(***************************************************************************)
\* The state after construction, where the calls of active are to come with
\* the buffers of docs.
InitWith(kinds, active, docs) ==
  /\ now = FirstYear
  /\ kind \in kinds
  /\ minimumTransactions = DefaultMinimumTransactions
  /\ pc = [c \in Calls |-> IF c \in active THEN "idle" ELSE "absent"]
  /\ \E chosen \in [active -> docs] :
       buffer = [c \in Calls |-> IF c \in active THEN chosen[c] ELSE <<>>]
  /\ pdf = [c \in Calls |-> None]
  /\ result = [c \in Calls |-> None]
  /\ running = 0
  /\ NoFrame
  /\ NoCurrency
  /\ NoNormalizer
  /\ NoThrown
  /\ NoService
  /\ NoAside

\* One call, of either parser.
Init ==
  \/ InitWith({"c6"}, {1}, DocsUpTo(C6Rows, MaxRows))
  \/ InitWith({"local"}, {1}, DocsUpTo(LocalRows, MaxRows))

Next ==
  \/ \E c \in Calls : Call(c)
  \/ \E c \in Calls : ExtractResolves(c)
  \/ \E c \in Calls : ExtractRejects(c)
  \/ C6HeaderStep
  \/ C6HeaderReturn
  \/ C6SegmentStep
  \/ C6SegmentReturn
  \/ C6Assemble
  \/ LocalHeaderStep
  \/ LocalHeaderReturn
  \/ LocalTransactionStep
  \/ LocalAssemble
  \/ Tick

Spec == Init /\ [][Next]_vars

(***************************************************************************)
(* parseCurrency on its own: the argument is drawn from the texts of at    *)
(* most MaxLen symbols over CurrencySymbols, null, and the texts that the  *)
(* parsers' documentation gives as examples.  The digit 5 is kept out of   *)
(* the drawn texts: with it as third decimal, toFixed(2) rounds by the     *)
(* binary expansion of the number, which ToFixed2 does not model.          *)
(***************************************************************************)
MaxLen == 4

CurrencySymbols == {"1", "9", ".", ",", "-", " ", "R", "$", "N/A"}

RECURSIVE TextsUpTo(_, _)
TextsUpTo(symbols, n) ==
  IF n = 0 THEN {<<>>}
  ELSE LET shorter == TextsUpTo(symbols, n - 1)
       IN  shorter \cup {Append(t, c) : t \in shorter, c \in symbols}

CurrencyExamples ==
  {<<"1", ".", "2", "3", "4", ",", "5", "6">>,
   <<"R", "$", " ", "4", "5", ",", "0", "0">>,
   <<"1", "2", ".", "3", "4", "1", ",", "9">>,
   <<"-", "2", ",", "3", "4", "9">>,
   <<"R", "$", " ", "0", ",", "4", "6", "9">>}

CurrencyInputs ==
  {None} \cup {Some(t) : t \in TextsUpTo(CurrencySymbols, MaxLen) \cup CurrencyExamples}

InitCurrency ==
  /\ now = FirstYear
  /\ kind = "c6"
  /\ minimumTransactions = DefaultMinimumTransactions
  /\ pc = [c \in Calls |-> "absent"]
  /\ buffer = [c \in Calls |-> <<>>]
  /\ pdf = [c \in Calls |-> None]
  /\ result = [c \in Calls |-> None]
  /\ running = 0
  /\ NoFrame
  /\ currencyText \in CurrencyInputs
  /\ currencyValue = <<>>
  /\ NoNormalizer
  /\ NoThrown
  /\ NoService
  /\ NoAside

\* parseCurrency is called with currencyText and returns.
ParseCurrency ==
  /\ currencyValue = <<>>
  /\ currencyValue' = <<parseCurrency(currencyText)>>
  /\ UNCHANGED <<now, instance, pc, buffer, pdf, result, running, frame, currencyText,
                 normalizer, thrown, service, aside>>

NextCurrency == ParseCurrency

SpecCurrency == InitCurrency /\ [][NextCurrency]_vars

(***************************************************************************)
(* The bank-specific parser on documents of card sections.                 *)
(***************************************************************************)
CardRows ==
  {"adicionais", "marker15", "markerNoValue", "titleAndMarker", "tx6and9",
   "refund5", "noteAndTx"}

InitCards == InitWith({"c6"}, {1}, DocsUpTo(CardRows, MaxRows))

NextC6 ==
  \/ \E c \in Calls : Call(c)
  \/ \E c \in Calls : ExtractResolves(c)
  \/ \E c \in Calls : ExtractRejects(c)
  \/ C6HeaderStep
  \/ C6HeaderReturn
  \/ C6SegmentStep
  \/ C6SegmentReturn
  \/ C6Assemble
  \/ Tick

SpecCards == InitCards /\ [][NextC6]_vars

(***************************************************************************)
(* Two calls of parse on the one parser instance that the registry caches, *)
(* each with a buffer of its own choice.                                   *)
(***************************************************************************)
C6CallDocs ==
  {<<"marker15", "tx6and9", "tx5">>,
   <<"closing", "marker15", "tx6and9", "tx5">>,
   <<"total20", "marker15", "tx5">>}

LocalCallDocs ==
  {<<"row6", "row9", "row6">>,
   <<"fechamento", "row6", "row9", "row6">>,
   <<"valorTotal20", "row6">>}

InitCalls ==
  \/ InitWith({"c6"}, Calls, C6CallDocs)
  \/ InitWith({"local"}, Calls, LocalCallDocs)

SpecCalls == InitCalls /\ [][Next]_vars

(***************************************************************************)
(* PdfTextNormalizer.normalize on its own.  Coordinates are whole numbers; *)
(* a row's y, the mean of its chunks' y, is kept as their sum ySum over    *)
(* their number.                                                           *)
(***************************************************************************)
\* config?.yTolerance ?? 2
yTolerance == 2

\* config?.spaceThreshold ?? 1.5, doubled
spaceThresholdDoubled == 3

\* decodeRun: T is the run's T (<<>>: missing or empty).  "%20" is an
\* escape of a space, "%" an escape that decodeURIComponent rejects.
decodeRun(T) ==
  IF T = <<>> THEN None
  ELSE IF \E i \in DOMAIN T : T[i] = "%" THEN Some(T)
  ELSE Some([i \in DOMAIN T |-> IF T[i] = "%20" THEN " " ELSE T[i]])

\* parts.join('') of the runs that decode to a non-empty text
RECURSIVE JoinRuns(_)
JoinRuns(runs) ==
  IF runs = <<>> THEN <<>>
  ELSE LET rest(text) == (IF text = None THEN <<>> ELSE Val(text)) \o JoinRuns(Tail(runs))
       IN  rest(decodeRun(runs[1]))

\* decodeTextItem: R is None when textItem.R is not an array.
decodeTextItem(textItem) ==
  IF textItem.R = None THEN None
  ELSE LET decoded(combined) == IF Trim(combined) /= <<>> THEN Some(combined) ELSE None
       IN  decoded(JoinRuns(Val(textItem.R)))

\* The comparator of flattenPage's sort: a goes before b or ties with it.
NotAfter(a, b) == IF a.y = b.y THEN a.x <= b.x ELSE a.y < b.y

RECURSIVE InsertByYX(_, _)
InsertByYX(sorted, c) ==
  IF sorted = <<>> THEN <<c>>
  ELSE IF NotAfter(sorted[Len(sorted)], c) THEN Append(sorted, c)
  ELSE Append(InsertByYX(Slice(sorted, 1, Len(sorted) - 1), c), sorted[Len(sorted)])

\* chunks.sort(...): the sort is stable.
RECURSIVE SortByYX(_)
SortByYX(cs) ==
  IF cs = <<>> THEN <<>>
  ELSE InsertByYX(SortByYX(Slice(cs, 1, Len(cs) - 1)), cs[Len(cs)])

\* flattenPage, before the sort: the chunks of the items that have a text.
RECURSIVE PageChunks(_, _)
PageChunks(texts, page) ==
  IF texts = <<>> THEN <<>>
  ELSE LET pushed(text) ==
             IF text = None THEN <<>>
             ELSE <<[page |-> page, text |-> Val(text), x |-> texts[1].x,
                     y |-> texts[1].y, width |-> texts[1].w, spacing |-> texts[1].sw]>>
       IN  pushed(decodeTextItem(texts[1])) \o PageChunks(Tail(texts), page)

\* flattenPage(page, pageIndex); page is pageIndex + 1.
flattenPage(texts, page) == SortByYX(PageChunks(texts, page))

\* StartsLine with >= in the place of >.
StartsLineAtTolerance(cur, c) ==
  \/ cur = None
  \/ c.page /= Val(cur).page
  \/ IF Val(cur).chunks = <<>> THEN FALSE
     ELSE LET n == Len(Val(cur).chunks)
              d == c.y * n - Val(cur).ySum
          IN  (IF d < 0 THEN -d ELSE d) >= yTolerance * n

\* The test that starts a new row: no row yet, another page, or the chunk
\* farther than yTolerance from the row's mean y.
StartsLine(cur, c) ==
  \/ cur = None
  \/ c.page /= Val(cur).page
  \/ IF Val(cur).chunks = <<>> THEN FALSE
     ELSE LET n == Len(Val(cur).chunks)
              d == c.y * n - Val(cur).ySum
          IN  (IF d < 0 THEN -d ELSE d) > yTolerance * n

\* needsSpace
needsSpace(ln, c) ==
  /\ ln.chunks /= <<>>
  /\ LET lastChunk == ln.chunks[Len(ln.chunks)]
     IN  2 * (c.x - (lastChunk.x + lastChunk.width)) > spaceThresholdDoubled

\* The row after the chunk c was pushed to it.
WithChunk(ln, c) ==
  [page |-> ln.page,
   ySum |-> ln.ySum + c.y,
   text |-> IF ln.text /= <<>> /\ needsSpace(ln, c)
            THEN ln.text \o <<" ">> \o c.text
            ELSE ln.text \o c.text,
   chunks |-> Append(ln.chunks, c)]

\* One iteration of the loop of groupChunksByLine: the rows after it.
groupChunk(rows, c) ==
  IF StartsLine(IF rows = <<>> THEN None ELSE Some(rows[Len(rows)]), c)
  THEN Append(rows, WithChunk([page |-> c.page, ySum |-> 0, text |-> <<>>,
                               chunks |-> <<>>], c))
  ELSE [rows EXCEPT ![Len(rows)] = WithChunk(rows[Len(rows)], c)]

\* lines.map((line) => ({ ...line, text: line.text.trim() }))
TrimmedLines(rows) == [i \in DOMAIN rows |-> [rows[i] EXCEPT !.text = Trim(rows[i].text)]]

\* normalize enters the callback of forEach for the page pageIndex.
FlattenPage ==
  /\ npc = "flatten"
  /\ pageIndex <= Len(document)
  /\ chunks' = flattenPage(document[pageIndex], pageIndex)
  /\ gidx' = 1
  /\ grouped' = <<>>
  /\ npc' = "group"
  /\ UNCHANGED <<now, instance, pc, buffer, pdf, result, running, frame, currency,
                 thrown, service, aside, document, pageIndex, normLines>>

GroupStep ==
  /\ npc = "group"
  /\ gidx <= Len(chunks)
  /\ grouped' = groupChunk(grouped, chunks[gidx])
  /\ gidx' = gidx + 1
  /\ UNCHANGED <<now, instance, pc, buffer, pdf, result, running, frame, currency,
                 thrown, service, aside, document, npc, pageIndex, chunks, normLines>>

\* groupChunksByLine returns; lines.push(...grouped).
GroupReturn ==
  /\ npc = "group"
  /\ gidx > Len(chunks)
  /\ normLines' = normLines \o TrimmedLines(grouped)
  /\ pageIndex' = pageIndex + 1
  /\ npc' = "flatten"
  /\ chunks' = <<>>
  /\ gidx' = 0
  /\ grouped' = <<>>
  /\ UNCHANGED <<now, instance, pc, buffer, pdf, result, running, frame, currency,
                 thrown, service, aside, document>>

\* forEach is over: normalize returns lines.
NormalizeReturn ==
  /\ npc = "flatten"
  /\ pageIndex > Len(document)
  /\ npc' = "done"
  /\ UNCHANGED <<now, instance, pc, buffer, pdf, result, running, frame, currency,
                 thrown, service, aside, document, pageIndex, chunks, gidx, grouped, normLines>>

MaxItems == 3
MaxPages == 2
Xs == {0, 1, 4}
Ys == {0, 2, 3}

\* The text items of the documents: width 1, one run.
TextItems ==
  {[x |-> x, y |-> y, w |-> 1, sw |-> 0, R |-> Some(<<T>>)] :
     x \in Xs, y \in Ys, T \in {<<"a">>, <<"%20">>}}

RECURSIVE TextsOf(_)
TextsOf(n) ==
  IF n = 0 THEN {<<>>}
  ELSE {Append(t, item) : t \in TextsOf(n - 1), item \in TextItems}

\* The documents of pages pages with at most n text items in all.
RECURSIVE DocumentsOf(_, _)
DocumentsOf(pages, n) ==
  IF pages = 0 THEN {<<>>}
  ELSE UNION {{<<texts>> \o d : texts \in TextsOf(k), d \in DocumentsOf(pages - 1, n - k)} :
                k \in 0..n}

InitNormalizer ==
  /\ now = FirstYear
  /\ kind = "c6"
  /\ minimumTransactions = DefaultMinimumTransactions
  /\ pc = [c \in Calls |-> "absent"]
  /\ buffer = [c \in Calls |-> <<>>]
  /\ pdf = [c \in Calls |-> None]
  /\ result = [c \in Calls |-> None]
  /\ running = 0
  /\ NoFrame
  /\ NoCurrency
  /\ document \in UNION {DocumentsOf(p, MaxItems) : p \in 0..MaxPages}
  /\ npc = "flatten"
  /\ pageIndex = 1
  /\ chunks = <<>>
  /\ gidx = 0
  /\ grouped = <<>>
  /\ normLines = <<>>
  /\ NoThrown
  /\ NoService
  /\ NoAside

NextNormalizer ==
  \/ FlattenPage
  \/ GroupStep
  \/ GroupReturn
  \/ NormalizeReturn

SpecNormalizer == InitNormalizer /\ [][NextNormalizer]_vars

(***************************************************************************)
(* The parser registry (StatementParserRegistry) as                        *)
(* createDefaultStatementParserRegistry builds it.  A bank name is a text; *)
(* an object or a Map is the sequence of its entries in insertion order.   *)
(* No name here is an integer index, which an object would list first.     *)
(***************************************************************************)

\* bank.trim().toLowerCase()
normalizeVerbatim(bank) == bank
normalize(bank) == FoldText(Trim(bank))

\* Object.prototype.hasOwnProperty.call(entries, key), Map.prototype.has
HasKey(entries, key) == \E i \in DOMAIN entries : entries[i].key = key

\* entries[key], Map.prototype.get (of a key that is there)
ValueOf(entries, key) ==
  entries[CHOOSE i \in DOMAIN entries : entries[i].key = key].value

\* entries[key] = value, Map.prototype.set: an entry that is there keeps its
\* place.
Put(entries, key, value) ==
  IF HasKey(entries, key)
  THEN [i \in DOMAIN entries |->
          IF entries[i].key = key THEN [key |-> key, value |-> value] ELSE entries[i]]
  ELSE Append(entries, [key |-> key, value |-> value])

\* const baseFactories = { c6, 'c6 bank', 'c6-bank', c6bank, generic }
baseFactories ==
  <<[key |-> <<"c6">>, value |-> "c6Factory"],
    [key |-> <<"c6", " ", "bank">>, value |-> "c6Factory"],
    [key |-> <<"c6", "-", "bank">>, value |-> "c6Factory"],
    [key |-> <<"c6bank">>, value |-> "c6Factory"],
    [key |-> <<"generic">>, value |-> "genericFactory"]>>

\* Names that every object inherits from Object.prototype.
InheritedNames == {<<"constructor">>}

\* baseFactories[normalized] ?? genericFactory: an own entry, else what the
\* object inherits (Object.prototype.constructor is Object), else undefined.
FactoryFor(normalized) ==
  IF HasKey(baseFactories, normalized) THEN ValueOf(baseFactories, normalized)
  ELSE IF normalized \in InheritedNames THEN "Object"
  ELSE "genericFactory"

\* options?.banks ?? Object.keys(baseFactories)
BanksOf(opts) ==
  IF opts = None \/ opts.banks = None
  THEN [i \in DOMAIN baseFactories |-> baseFactories[i].key]
  ELSE Val(opts.banks)

\* options?.defaultBank ?? 'generic'
DefaultBankOf(opts) ==
  IF opts = None \/ opts.defaultBank = None THEN <<"generic">> ELSE Val(opts.defaultBank)

\* banks.reduce((acc, bank) => { acc[bank] = factory; return acc }, {})
RECURSIVE EntriesOfBanks(_, _)
EntriesOfBanks(acc, banks) ==
  IF banks = <<>> THEN acc
  ELSE EntriesOfBanks(Put(acc, banks[1], FactoryFor(normalize(banks[1]))), Tail(banks))

\* for (const [alias, factory] of Object.entries(baseFactories)) ...
RECURSIVE WithAliases(_, _)
WithAliases(entries, i) ==
  IF i > Len(baseFactories) THEN entries
  ELSE IF HasKey(entries, baseFactories[i].key) THEN WithAliases(entries, i + 1)
  ELSE WithAliases(Put(entries, baseFactories[i].key, baseFactories[i].value), i + 1)

\* const hasGeneric = ...; if (!hasGeneric) entries.generic = genericFactory
WithGeneric(entries) ==
  IF \E i \in DOMAIN entries : normalize(entries[i].key) = <<"generic">> THEN entries
  ELSE Put(entries, <<"generic">>, "genericFactory")

\* The entries that createDefaultStatementParserRegistry hands to the
\* constructor.
RegistryEntries(opts) ==
  WithGeneric(WithAliases(EntriesOfBanks(<<>>, BanksOf(opts)), 1))

\* The constructor's loop: this.factories.set(normalizedBank, factory) (every
\* value here is a function).
RECURSIVE FactoriesOf(_, _)
FactoriesOf(acc, entries) ==
  IF entries = <<>> THEN acc
  ELSE FactoriesOf(Put(acc, normalize(entries[1].key), entries[1].value), Tail(entries))

\* options?.defaultBank ? this.normalize(options.defaultBank) : undefined
\* (the empty string is falsy)
DefaultBankKeyOf(defaultBank) ==
  IF defaultBank = <<>> THEN None ELSE Some(normalize(defaultBank))

\* What a factory builds: a new object at every call.  The bank key and
\* the number of the call among the calls of factories tell the objects
\* apart.
NewParser(factory, bankKey) ==
  [class |-> CASE factory = "c6Factory" -> "C6BankStatementParser"
               [] factory = "genericFactory" -> "LocalStatementParser"
               [] OTHER -> "Object",
   createdFor |-> bankKey,
   serial |-> Len(constructed) + 1]

\* getOrCreateInstance that never looks at this.instances.
getOrCreateInstanceAnew(bankKey) ==
  NewParser(ValueOf(factories, bankKey), bankKey)

\* getOrCreateInstance: the parser it returns, this.instances after it and
\* the factory calls after it.
getOrCreateInstance(bankKey) ==
  IF HasKey(instances, bankKey) THEN ValueOf(instances, bankKey)
  ELSE NewParser(ValueOf(factories, bankKey), bankKey)

InstancesAfter(bankKey) ==
  IF HasKey(instances, bankKey) THEN instances
  ELSE Put(instances, bankKey, NewParser(ValueOf(factories, bankKey), bankKey))

ConstructedAfter(bankKey) ==
  IF HasKey(instances, bankKey) THEN constructed ELSE Append(constructed, bankKey)

\* resolve: the key whose parser it returns, None when it returns null.
resolveNoFallback(normalizedBank) ==
  IF HasKey(factories, normalizedBank) THEN Some(normalizedBank) ELSE None

resolve(normalizedBank) ==
  IF HasKey(factories, normalizedBank) THEN Some(normalizedBank)
  ELSE IF defaultBankKey # None /\ Val(defaultBankKey) # <<>>
          /\ HasKey(factories, Val(defaultBankKey))
       THEN defaultBankKey
       ELSE None

MaxInstances == 2
MaxBanks == 2

\* registry.resolve(bank) is called and returns.
Resolve(bank) ==
  /\ factories # <<>>
  /\ \A key \in {resolve(normalize(bank))} :
       key /= None => Len(ConstructedAfter(Val(key))) <= MaxInstances
  /\ bankArg' = Some(bank)
  /\ \E key \in {resolve(normalize(bank))} :
       IF key = None
       THEN /\ resolved' = <<None>>
            /\ UNCHANGED <<instances, constructed>>
       ELSE /\ resolved' = <<Some([parser |-> getOrCreateInstance(Val(key)),
                                   bankKey |-> Val(key),
                                   isFallback |-> ~HasKey(factories, normalize(bank))])>>
            /\ instances' = InstancesAfter(Val(key))
            /\ constructed' = ConstructedAfter(Val(key))
  /\ UNCHANGED <<now, instance, pc, buffer, pdf, result, running, frame, currency,
                 normalizer, thrown, http, aside, options, factories, defaultBankKey>>

C6Aliases == {<<"c6">>, <<"c6", " ", "bank">>, <<"c6", "-", "bank">>, <<"c6bank">>}

\* The names of the banks lists.
BankNames ==
  {<<"c6">>, <<"C6", " ", "Bank">>, <<" ", "c6", "-", "bank", " ">>, <<"c6bank">>,
   <<"generic">>, <<" ", "GENERIC">>, <<"nubank">>, <<>>, <<"constructor">>}

\* The names resolve is called with.
ResolveNames == BankNames \cup C6Aliases \cup {<<" ">>, <<"itau">>}

DefaultBanks ==
  {None, Some(<<"generic">>), Some(<<"nubank">>), Some(<<"C6">>), Some(<<>>), Some(<<" ">>)}

RECURSIVE BankLists(_)
BankLists(n) ==
  IF n = 0 THEN {<<>>}
  ELSE BankLists(n - 1) \cup {Append(l, b) : l \in BankLists(n - 1), b \in BankNames}

RegistryOptions ==
  {None} \cup
  {[banks |-> b, defaultBank |-> d] :
     b \in {None} \cup {Some(l) : l \in BankLists(MaxBanks)}, d \in DefaultBanks}

\* No parser is at work.
NoParser ==
  /\ now = FirstYear
  /\ kind = "c6"
  /\ minimumTransactions = DefaultMinimumTransactions
  /\ pc = [c \in Calls |-> "absent"]
  /\ buffer = [c \in Calls |-> <<>>]
  /\ pdf = [c \in Calls |-> None]
  /\ result = [c \in Calls |-> None]
  /\ running = 0
  /\ NoFrame
  /\ NoCurrency
  /\ NoNormalizer
  /\ NoThrown

\* createDefaultStatementParserRegistry(options) has returned.
InitRegistry ==
  /\ NoParser
  /\ NoHttp
  /\ NoAside
  /\ options \in RegistryOptions
  /\ factories = FactoriesOf(<<>>, RegistryEntries(options))
  /\ defaultBankKey = DefaultBankKeyOf(DefaultBankOf(options))
  /\ instances = <<>>
  /\ bankArg = None
  /\ resolved = <<>>
  /\ constructed = <<>>

NextRegistry == \E bank \in ResolveNames : Resolve(bank)

SpecRegistry == InitRegistry /\ [][NextRegistry]_vars

(***************************************************************************)
(* The controller (ParseStatementController.handle).  A JavaScript value   *)
(* is a record of its type; None is undefined.  The use case is the        *)
(* collaborator the constructor was given: a call of execute resolves with *)
(* a statement or rejects.  Reading a part into a buffer succeeds.         *)
(***************************************************************************)
Str(s) == [type |-> "string", text |-> s, items |-> <<>>]
Num == [type |-> "number", text |-> <<>>, items |-> <<>>]
Arr(items) == [type |-> "array", text |-> <<>>, items |-> items]

\* typeof value === 'string' && value.trim().length > 0
IsNonBlankString(value) ==
  /\ value # None
  /\ value.type = "string"
  /\ Trim(value.text) # <<>>

\* Array.isArray(part.value) ? part.value[0] : part.value
FirstValue(value) ==
  IF value # None /\ value.type = "array"
  THEN IF value.items = <<>> THEN None ELSE value.items[1]
  ELSE value

\* The body of the loop over request.parts().
ConsumePart(acc, part) ==
  IF part.type = "file"
  THEN IF acc.file = None /\ part.fieldname = "file"
       THEN [acc EXCEPT !.file = Some(part)]
       ELSE acc
  ELSE IF part.type = "field" /\ part.fieldname = "bank"
            /\ IsNonBlankString(FirstValue(part.value))
       THEN [acc EXCEPT !.bank = Some(Trim(FirstValue(part.value).text))]
       ELSE acc

RECURSIVE ConsumeParts(_, _)
ConsumeParts(acc, parts) ==
  IF parts = <<>> THEN acc ELSE ConsumeParts(ConsumePart(acc, parts[1]), Tail(parts))

consumeMultipartPayload(req) ==
  IF req.multipart = "none" THEN [file |-> None, bank |-> None]
  ELSE IF req.multipart = "file" THEN [file |-> req.upload, bank |-> None]
  ELSE ConsumeParts([file |-> None, bank |-> None], req.parts)

extractBankFromQuery(req) ==
  IF req.query # None /\ IsNonBlankString(Val(req.query))
  THEN Some(Trim(Val(req.query).text))
  ELSE None

\* header.find((item) => typeof item === 'string' && item.trim().length > 0)
RECURSIVE FindNonBlank(_)
FindNonBlank(items) ==
  IF items = <<>> THEN None
  ELSE IF IsNonBlankString(items[1]) THEN Some(Trim(items[1].text))
       ELSE FindNonBlank(Tail(items))

extractBankFromHeaders(req) ==
  IF IsNonBlankString(req.xBank) THEN Some(Trim(req.xBank.text))
  ELSE IF req.xBank # None /\ req.xBank.type = "array" THEN FindNonBlank(req.xBank.items)
       ELSE None

\* a ?? b
Coalesce(a, b) == IF a # None THEN a ELSE b

\* bankFromForm ?? this.extractBankFromQuery(request) ?? this.extractBankFromHeaders(request)
ChooseBankHeaderFirst(bankFromForm, req) ==
  Coalesce(Coalesce(bankFromForm, extractBankFromHeaders(req)), extractBankFromQuery(req))

ChooseBank(bankFromForm, req) ==
  Coalesce(Coalesce(bankFromForm, extractBankFromQuery(req)), extractBankFromHeaders(req))

\* file.mimetype?.includes('pdf')
IsPdfAnyType(file) == TRUE

IsPdf(file) == file.mimetype # None /\ FindFrom(Val(file.mimetype), <<"pdf">>, 1) > 0

NoFileMessage == "Arquivo PDF não enviado. Utilize o campo 'file'."
NotPdfMessage == "Arquivo inválido. Envie uma fatura em formato PDF."
NoBankMessage == "Campo 'bank' é obrigatório."
FailureMessage == "Não foi possível processar a fatura no momento."

\* reply.status(status).send({ [key]: value })
Reply(status, key, value) == [status |-> status, body |-> <<key, value>>]

\* The argument of this.useCase.execute.
ExecuteParams(bank, file) ==
  [bank |-> bank,
   fileBuffer |-> file.content,
   fileName |-> IF file.filename # None THEN Val(file.filename) ELSE <<"statement.pdf">>,
   mimeType |-> file.mimetype]

\* handle runs up to its answer of 400 or to the call of the use case.
Handle ==
  /\ hpc = "received"
  /\ \E payload \in {consumeMultipartPayload(Val(request))} :
     \E bank \in {ChooseBank(payload.bank, Val(request))} :
       IF payload.file = None
       THEN /\ responses' = Append(responses, Reply(400, "message", NoFileMessage))
            /\ hpc' = "done"
            /\ UNCHANGED executed
       ELSE IF ~IsPdf(Val(payload.file))
       THEN /\ responses' = Append(responses, Reply(400, "message", NotPdfMessage))
            /\ hpc' = "done"
            /\ UNCHANGED executed
       ELSE IF bank = None
       THEN /\ responses' = Append(responses, Reply(400, "message", NoBankMessage))
            /\ hpc' = "done"
            /\ UNCHANGED executed
       ELSE /\ executed' = Append(executed, ExecuteParams(Val(bank), Val(payload.file)))
            /\ hpc' = "executing"
            /\ UNCHANGED responses
  /\ UNCHANGED <<now, instance, pc, buffer, pdf, result, running, frame, currency,
                 normalizer, thrown, registry, aside, request, logged>>

Statements == {"statement of one card", "statement of two cards"}
UseCaseErrors == {"insufficient data"}

\* The use case resolves: reply.status(200).send({ statement }).
ExecuteResolves ==
  /\ hpc = "executing"
  /\ \E statement \in Statements :
       responses' = Append(responses, Reply(200, "statement", statement))
  /\ hpc' = "done"
  /\ UNCHANGED <<now, instance, pc, buffer, pdf, result, running, frame, currency,
                 normalizer, thrown, registry, aside, request, executed, logged>>

\* The use case rejects: the catch clause logs and answers 500.
ExecuteRejects ==
  /\ hpc = "executing"
  /\ \E error \in UseCaseErrors : logged' = Append(logged, error)
  /\ responses' = Append(responses, Reply(500, "message", FailureMessage))
  /\ hpc' = "done"
  /\ UNCHANGED <<now, instance, pc, buffer, pdf, result, running, frame, currency,
                 normalizer, thrown, registry, aside, request, executed>>

MaxParts == 2

FilePart(fieldname, mimetype, content, filename) ==
  [type |-> "file", fieldname |-> fieldname, mimetype |-> mimetype,
   content |-> content, filename |-> filename, value |-> None]

FieldPart(fieldname, value) ==
  [type |-> "field", fieldname |-> fieldname, mimetype |-> None,
   content |-> "", filename |-> None, value |-> value]

MimeTypes ==
  {None, Some(<<"application", "/", "pdf">>), Some(<<"application", "/", "x-", "pdf">>),
   Some(<<"application", "/", "PDF">>), Some(<<"image", "/", "png">>)}

FileParts ==
  {FilePart(f, m, "bytes of fatura.pdf", Some(<<"fatura.pdf">>)) :
     f \in {"file", "avatar"}, m \in MimeTypes}
  \cup {FilePart("file", m, "bytes without a name", None) : m \in MimeTypes}

BankValues ==
  {Str(<<"c6">>), Str(<<" ", "generic", " ">>), Str(<<" ">>), Num,
   Arr(<<Str(<<"nubank">>)>>), Arr(<<Str(<<>>), Str(<<"itau">>)>>)}

FieldParts ==
  {FieldPart("bank", v) : v \in BankValues} \cup {FieldPart("note", Str(<<"c6bank">>))}

RECURSIVE PartLists(_)
PartLists(n) ==
  IF n = 0 THEN {<<>>}
  ELSE PartLists(n - 1)
       \cup {Append(l, p) : l \in PartLists(n - 1), p \in FileParts \cup FieldParts}

Requests ==
  {[multipart |-> m.multipart, upload |-> m.upload, parts |-> m.parts,
    query |-> q, xBank |-> h] :
     m \in {[multipart |-> "none", upload |-> None, parts |-> <<>>]}
           \cup {[multipart |-> "file", upload |-> u, parts |-> <<>>] :
                   u \in {None} \cup {Some(f) : f \in FileParts}}
           \cup {[multipart |-> "parts", upload |-> None, parts |-> l] :
                   l \in PartLists(MaxParts)},
     q \in {None, Some(None), Some(Str(<<" ", "generic", " ">>)), Some(Str(<<" ">>)),
            Some(Num)},
     h \in {None} \cup {Str(<<"c6", " ">>), Str(<<>>),
                        Arr(<<Str(<<" ">>), Str(<<" ", "itau">>)>>)}}

\* A request has come in and handle is called with it.
InitHttp ==
  /\ NoParser
  /\ NoRegistry
  /\ NoAside
  /\ request \in {Some(r) : r \in Requests}
  /\ hpc = "received"
  /\ executed = <<>>
  /\ responses = <<>>
  /\ logged = <<>>

NextHttp ==
  \/ Handle
  \/ ExecuteResolves
  \/ ExecuteRejects

SpecHttp == InitHttp /\ [][NextHttp]_vars

(***************************************************************************)
(* extractTransactionsFromLines on its own, on rows of chunks of every     *)
(* kind: date-like, amount-like, words, blank.                             *)
(***************************************************************************)
MaxChunks == 6
MaxShortChunks == 2

ChunkTexts ==
  {<<"0", "5", " ", "jan">>, <<" ", "Loja", " ">>, <<"Loja", " ", " ", "2", "/", "3">>,
   T_6_00, <<" ">>}

RECURSIVE ChunkRows(_)
ChunkRows(n) ==
  IF n = 0 THEN {<<>>}
  ELSE ChunkRows(n - 1) \cup {Append(r, t) : r \in ChunkRows(n - 1), t \in ChunkTexts}

\* One row of up to MaxChunks chunks, or two rows of up to MaxShortChunks and
\* up to three chunks.
DetectorDocs ==
  {<<r>> : r \in ChunkRows(MaxChunks)}
  \cup {<<r, q>> : r \in ChunkRows(MaxShortChunks), q \in ChunkRows(MaxShortChunks + 1)}

InitDetector ==
  /\ NoParser
  /\ NoService
  /\ argument \in {Some(d) : d \in DetectorDocs}
  /\ returned = <<>>
  /\ NoBeside

\* extractTransactionsFromLines(lines) is called, without a fallback year or
\* a closing month, and returns.
DetectTransactions ==
  /\ returned = <<>>
  /\ returned' = <<extractTransactionsFromLines(
                     [i \in DOMAIN Val(argument) |-> line(Val(argument)[i])],
                     None, None, now)>>
  /\ UNCHANGED <<now, instance, pc, buffer, pdf, result, running, frame, currency,
                 normalizer, thrown, service, argument, beside>>

NextDetector == DetectTransactions

SpecDetector == InitDetector /\ [][NextDetector]_vars

(***************************************************************************)
(* The two determineTransactionType and extractInstallmentInfo on their    *)
(* own, on descriptions over words of every keyword list.                  *)
(***************************************************************************)
MaxWords == 4

DescriptionSymbols ==
  {"estorno", "pix", "pagamento", "ajuste", "antecipação", "Anuidade", "parcela",
   "Loja", "2", "3", "/", " "}

InitClassifier ==
  /\ NoParser
  /\ NoService
  /\ argument \in {Some(d) : d \in TextsUpTo(DescriptionSymbols, MaxWords)}
  /\ returned = <<>>
  /\ NoBeside

\* Both parsers classify the description; the bank-specific one also reads
\* its installment.
Classify ==
  /\ returned = <<>>
  /\ returned' = <<[type |-> determineTransactionType(Val(argument)),
                    installment |-> extractInstallmentInfo(Val(argument)),
                    localType |-> LocaldetermineTransactionType(Val(argument))]>>
  /\ UNCHANGED <<now, instance, pc, buffer, pdf, result, running, frame, currency,
                 normalizer, thrown, service, argument, beside>>

NextClassifier == Classify

SpecClassifier == InitClassifier /\ [][NextClassifier]_vars

(***************************************************************************)
(* The body of the loop of LocalStatementParser.extractTransactions on its *)
(* own, on one row of chunks placed at any x.                              *)
(***************************************************************************)
MaxRowChunks == 4
MaxX == 3

RowTexts ==
  {<<"0", "5", "/", "0", "1">>, <<"Loja">>, <<"Loja", " ", "2">>, T_6_00, <<"2">>}

RowChunks == {chunk(t, x) : t \in RowTexts, x \in 1..MaxX}

InitRow ==
  /\ NoParser
  /\ NoService
  /\ argument \in {Some([text |-> <<>>, chunks |-> r]) :
                     r \in TextsUpTo(RowChunks, MaxRowChunks)}
  /\ returned = <<>>
  /\ NoBeside

\* One pass of the loop of extractTransactions over the row, without a
\* fallback year.
ExtractRow ==
  /\ returned = <<>>
  /\ returned' = <<LocalLineTransaction(Val(argument), None, now)>>
  /\ UNCHANGED <<now, instance, pc, buffer, pdf, result, running, frame, currency,
                 normalizer, thrown, service, argument, beside>>

NextRow == ExtractRow

SpecRow == InitRow /\ [][NextRow]_vars

(***************************************************************************)
(* The bank-specific parser on documents of header and footer rows of the  *)
(* invoice total and the minimum payment, built with minimumTransactions 0 *)
(* so that every document yields a statement.                              *)
(***************************************************************************)
MaxTotalRows == 4

TotalRows ==
  {"total20", "totalBad", "minimum5", "footer15", "footer20", "footerBad",
   "footerMinimum9", "footerMinimumBad"}

InitTotals ==
  /\ now = FirstYear
  /\ kind = "c6"
  /\ minimumTransactions = 0
  /\ pc = [c \in Calls |-> IF c = 1 THEN "idle" ELSE "absent"]
  /\ \E doc \in DocsUpTo(TotalRows, MaxTotalRows) :
       buffer = [c \in Calls |-> IF c = 1 THEN doc ELSE <<>>]
  /\ pdf = [c \in Calls |-> None]
  /\ result = [c \in Calls |-> None]
  /\ running = 0
  /\ NoFrame
  /\ NoCurrency
  /\ NoNormalizer
  /\ NoThrown
  /\ NoService
  /\ NoAside

SpecTotals == InitTotals /\ [][NextC6]_vars

(***************************************************************************)
(* CompositeStatementExtractionService.extractFromPdf over a list of       *)
(* services.  A service is described by what its extractFromPdf does with  *)
(* the call's params: the local service by what its parser's parse gives,  *)
(* any other service by what its promise settles with.  An error is        *)
(* [isError, name, message]; a thrown value that is no Error has isError   *)
(* FALSE and its String(..) as message.                                    *)
(***************************************************************************)
InsufficientDataMessage == <<"Parser local não encontrou dados suficientes.">>

\* new LocalParserInsufficientDataError()
LocalParserInsufficientDataError ==
  [isError |-> TRUE, name |-> "LocalParserInsufficientDataError",
   message |-> InsufficientDataMessage]

Returns(value) == [ok |-> TRUE, value |-> value]
Throws(error) == [ok |-> FALSE, error |-> error]

\* LocalextractFromPdf that returns the result's statement as it is.
LocalextractFromPdfUnchecked(parsed) ==
  IF ~parsed.ok THEN Throws(parsed.error)
  ELSE Returns(IF parsed.value.statement = None THEN None
               ELSE Val(parsed.value.statement))

\* LocalStatementExtractionService.extractFromPdf, for what resolveParser
\* and parse give: parsed is [ok, value] with the parser's result as value,
\* or [ok, error] when resolveParser threw or parse rejected.
LocalextractFromPdf(parsed) ==
  IF ~parsed.ok THEN Throws(parsed.error)
  ELSE IF parsed.value.statement = None THEN Throws(LocalParserInsufficientDataError)
  ELSE Returns(Val(parsed.value.statement))

\* service.extractFromPdf(params): what the promise settles with.
ServiceextractFromPdf(svc) ==
  IF svc.type = "local" THEN LocalextractFromPdf(svc.does) ELSE svc.does

\* formatError: error.message of an Error, String(error) of any other value
\* (kept in message too).
formatError(error) == error.message

\* `${index + 1}`
IndexText(index) == <<"1", "2", "3", "4", "5", "6", "7", "8", "9">>[index]

\* `#${index + 1}: ${this.formatError(error)}`, joined with ' | '
RECURSIVE SummaryFrom(_, _)
SummaryFrom(errs, index) ==
  IF index > Len(errs) THEN <<>>
  ELSE (IF index > 1 THEN <<" | ">> ELSE <<>>)
       \o <<"#", IndexText(index), ":", " ">> \o formatError(errs[index])
       \o SummaryFrom(errs, index + 1)

\* new Error(`Nenhuma estratégia de extração obteve sucesso. ${summary}`)
NoStrategyError(errs) ==
  [isError |-> TRUE, name |-> "Error",
   message |-> <<"Nenhuma estratégia de extração obteve sucesso.", " ">>
               \o SummaryFrom(errs, 1)]

\* extractFromPdf is called: errors is empty and the loop starts.
CompositeCall ==
  /\ cpc = "idle"
  /\ cpc' = "loop"
  /\ position' = 1
  /\ errors' = <<>>
  /\ UNCHANGED <<now, instance, pc, buffer, pdf, result, running, frame, currency,
                 normalizer, thrown, service, call, extractor, services, invoked, outcome>>

\* The loop calls the extractFromPdf of the service it is at and awaits it.
InvokeService ==
  /\ cpc = "loop"
  /\ position <= Len(services)
  /\ invoked' = Append(invoked, position)
  /\ cpc' = "awaiting"
  /\ UNCHANGED <<now, instance, pc, buffer, pdf, result, running, frame, currency,
                 normalizer, thrown, service, call, extractor, services, position, errors, outcome>>

\* The awaited promise resolves: extractFromPdf returns its value.
ServiceResolves ==
  /\ cpc = "awaiting"
  /\ ServiceextractFromPdf(services[position]).ok
  /\ outcome' = Some(Returns(ServiceextractFromPdf(services[position]).value))
  /\ cpc' = "returned"
  /\ UNCHANGED <<now, instance, pc, buffer, pdf, result, running, frame, currency,
                 normalizer, thrown, service, call, extractor, services, position, errors, invoked>>

\* The awaited promise rejects: the error is pushed and the loop goes on.
ServiceRejects ==
  /\ cpc = "awaiting"
  /\ ~ServiceextractFromPdf(services[position]).ok
  /\ errors' = Append(errors, ServiceextractFromPdf(services[position]).error)
  /\ position' = position + 1
  /\ cpc' = "loop"
  /\ UNCHANGED <<now, instance, pc, buffer, pdf, result, running, frame, currency,
                 normalizer, thrown, service, call, extractor, services, invoked, outcome>>

\* The loop is over: extractFromPdf throws the summary of the errors.
CompositeThrows ==
  /\ cpc = "loop"
  /\ position > Len(services)
  /\ outcome' = Some(Throws(NoStrategyError(errors)))
  /\ cpc' = "thrown"
  /\ UNCHANGED <<now, instance, pc, buffer, pdf, result, running, frame, currency,
                 normalizer, thrown, service, call, extractor, services, position, errors, invoked>>

MaxServices == 3

\* What the local service's parser can give: a statement, the result
\* without a statement, or a failure (no parser for the bank).
LocalServices ==
  {[type |-> "local", does |-> d] :
     d \in {Returns([statement |-> Some("local statement")]),
            Returns([statement |-> None]),
            Throws([isError |-> TRUE, name |-> "UnsupportedBankError",
                    message |-> <<"Banco 'x' não é suportado pelo parser local.">>])}}

\* Any other service: it resolves with a statement, rejects with an Error or
\* rejects with a value that is no Error.
OtherServices ==
  {[type |-> "other", does |-> d] :
     d \in {Returns("other statement"),
            Throws([isError |-> TRUE, name |-> "Error", message |-> <<"timeout">>]),
            Throws([isError |-> FALSE, name |-> "", message |-> <<"503">>])}}

InitComposite ==
  /\ NoParser
  /\ NoService
  /\ NoCall
  /\ NoExtractor
  /\ services \in TextsUpTo(LocalServices \cup OtherServices, MaxServices)
  /\ cpc = "idle"
  /\ position = 0
  /\ errors = <<>>
  /\ invoked = <<>>
  /\ outcome = None

NextComposite ==
  \/ CompositeCall
  \/ InvokeService
  \/ ServiceResolves
  \/ ServiceRejects
  \/ CompositeThrows

SpecComposite == InitComposite /\ [][NextComposite]_vars

\* The steps of extractFromPdf after its call: the event loop runs the
\* continuation of a settled await, and the promise of every service of
\* services settles.
CompositeRuns == InvokeService \/ ServiceResolves \/ ServiceRejects \/ CompositeThrows

SpecCompositeFair == SpecComposite /\ WF_vars(CompositeRuns)

(***************************************************************************)
(* Pdf2JsonExtractor.extract on its own: the executor of the promise, the  *)
(* two listeners and a PDFParser that may emit pdfParser_dataReady and     *)
(* pdfParser_dataError any number of times, in any order, during           *)
(* parseBuffer or after it, and whose parseBuffer may throw.               *)
(***************************************************************************)
MaxEvents == 3

\* What pdfParser_dataReady comes with.
DecoderData == {"pdfData", "other pdfData"}

\* parser.removeAllListeners()
removeNoListeners(registered) == registered

removeAllListeners(registered) == {}

\* resolve(value), reject(error): a promise that is settled stays as it is.
Settle(current, settlement) == IF current = None THEN Some(settlement) ELSE current

\* extract is called: the executor makes the parser, registers the two
\* listeners and calls parseBuffer.
ExtractCall ==
  /\ epc = "idle"
  /\ listeners' = {"pdfParser_dataError", "pdfParser_dataReady"}
  /\ epc' = "parseBuffer"
  /\ UNCHANGED <<now, instance, pc, buffer, pdf, result, running, frame, currency,
                 normalizer, thrown, service, call, composite, settled, events>>

\* The parser emits pdfParser_dataReady: the listener, when there is one,
\* removes all listeners and resolves.
EmitDataReady(pdfData) ==
  /\ epc \in {"parseBuffer", "pending"}
  /\ Len(events) < MaxEvents
  /\ events' = Append(events, [event |-> "pdfParser_dataReady", with |-> pdfData])
  /\ IF "pdfParser_dataReady" \in listeners
     THEN /\ listeners' = removeAllListeners(listeners)
          /\ settled' = Settle(settled, Returns(pdfData))
     ELSE UNCHANGED <<listeners, settled>>
  /\ UNCHANGED <<now, instance, pc, buffer, pdf, result, running, frame, currency,
                 normalizer, thrown, service, call, composite, epc>>

\* The parser emits pdfParser_dataError: handleError, when it is still a
\* listener, removes all listeners and rejects.
EmitDataError(error) ==
  /\ epc \in {"parseBuffer", "pending"}
  /\ Len(events) < MaxEvents
  /\ events' = Append(events, [event |-> "pdfParser_dataError", with |-> error])
  /\ IF "pdfParser_dataError" \in listeners
     THEN /\ listeners' = removeAllListeners(listeners)
          /\ settled' = Settle(settled, Throws(handleError(error)))
     ELSE UNCHANGED <<listeners, settled>>
  /\ UNCHANGED <<now, instance, pc, buffer, pdf, result, running, frame, currency,
                 normalizer, thrown, service, call, composite, epc>>

\* parseBuffer throws: the catch calls handleError; the executor is over.
ParseBufferThrows(error) ==
  /\ epc = "parseBuffer"
  /\ Len(events) < MaxEvents
  /\ events' = Append(events, [event |-> "throw", with |-> error])
  /\ listeners' = removeAllListeners(listeners)
  /\ settled' = Settle(settled, Throws(handleError(error)))
  /\ epc' = "pending"
  /\ UNCHANGED <<now, instance, pc, buffer, pdf, result, running, frame, currency,
                 normalizer, thrown, service, call, composite>>

\* parseBuffer returns: the executor is over.
ParseBufferReturns ==
  /\ epc = "parseBuffer"
  /\ epc' = "pending"
  /\ UNCHANGED <<now, instance, pc, buffer, pdf, result, running, frame, currency,
                 normalizer, thrown, service, call, composite, listeners, settled,
                 events>>

InitExtractor ==
  /\ NoParser
  /\ NoService
  /\ NoCall
  /\ NoComposite
  /\ epc = "idle"
  /\ listeners = {}
  /\ settled = None
  /\ events = <<>>

NextExtractor ==
  \/ ExtractCall
  \/ \E pdfData \in DecoderData : EmitDataReady(pdfData)
  \/ \E error \in DecoderErrors : EmitDataError(error)
  \/ \E error \in DecoderErrors : ParseBufferThrows(error)
  \/ ParseBufferReturns

SpecExtractor == InitExtractor /\ [][NextExtractor]_vars

(***************************************************************************)
(* The claims.                                                             *)
(***************************************************************************)
\* The statement that call c returned, None when it returned statement: null
\* or has not returned.
StatementOf(c) == IF result[c] = None THEN None ELSE Val(result[c]).statement

Emitted(c) == pc[c] = "done" /\ StatementOf(c) /= None

\* The transactions that the running call has detected over the whole
\* document, when it stands before the gate.
DetectedCount == IF kind = "c6" THEN Len(allTransactions(blocks)) ELSE Len(transactions)

\* C1: for both parser variants, a call whose document yields fewer
\* transactions than minimumTransactions returns statement = null, whatever
\* the header holds, and a call whose document yields at least
\* minimumTransactions returns a statement.
C1_MinimumGate ==
  [][\A c \in Calls :
       (pc[c] /= "done" /\ pc'[c] = "done")
         => /\ result'[c] /= None
            /\ (DetectedCount < minimumTransactions
                  => Val(result'[c]).statement = None)
            /\ (DetectedCount >= minimumTransactions
                  => Val(result'[c]).statement /= None)]_vars

\* C1: a document with a closing date, a total and one transaction row has
\* been answered with statement: null.
C1_Witness ==
  /\ kind = "c6"
  /\ buffer[1] = <<"closing", "total20", "marker15", "tx5">>
  /\ pc[1] = "done"
  /\ result[1] = Some([statement |-> None])

\* The transactions of a statement, card by card.
RECURSIVE CardsTransactions(_)
CardsTransactions(cards) ==
  IF cards = <<>> THEN <<>>
  ELSE cards[1].transactions \o CardsTransactions(Tail(cards))

StatementTransactions(c) == CardsTransactions(Val(StatementOf(c)).cards)

\* The year and the month of an ISO date yyyy-mm-dd.
YearOf(iso) == DigitsValue(Slice(iso, 1, 4))
MonthOf(iso) == DigitsValue(Slice(iso, 6, 7))

\* C5: in a statement of the bank-specific parser with a closing date of year
\* Y and month M, a transaction of a month after M is dated in year Y - 1 and
\* a transaction of a month up to M in year Y.
C5_YearRollback ==
  \A c \in Calls :
    (kind = "c6" /\ Emitted(c) /\ Val(StatementOf(c)).closing_date /= None)
      => LET closing == Val(Val(StatementOf(c)).closing_date)
             txs == StatementTransactions(c)
         IN  \A k \in DOMAIN txs :
               /\ txs[k].date /= None
               /\ MonthOf(Val(txs[k].date)) > MonthOf(closing)
                    => YearOf(Val(txs[k].date)) = YearOf(closing) - 1
               /\ MonthOf(Val(txs[k].date)) <= MonthOf(closing)
                    => YearOf(Val(txs[k].date)) = YearOf(closing)

\* C5: a statement closing in January 2025 has been returned whose rows
\* "05 jan" and "15 dez" are dated 2025-01-05 and 2024-12-15.
C5_Witness ==
  /\ kind = "c6"
  /\ buffer[1] = <<"closing", "marker15", "tx6and9", "tx5">>
  /\ Emitted(1)
  /\ StatementTransactions(1)[1].date
       = Some(<<"2", "0", "2", "5", "-", "0", "1", "-", "0", "5">>)
  /\ StatementTransactions(1)[2].date
       = Some(<<"2", "0", "2", "4", "-", "1", "2", "-", "1", "5">>)

\* C9: every transaction that either parser variant holds or has returned has
\* an amount; a row or group whose amount text does not parse yields none.
C9_AmountNeverNull ==
  /\ \A k \in DOMAIN transactions : transactions[k].amount /= None
  /\ \A b \in DOMAIN blocks :
       \A k \in DOMAIN blocks[b].transactions : blocks[b].transactions[k].amount /= None
  /\ \A c \in Calls :
       Emitted(c) => \A k \in DOMAIN StatementTransactions(c) :
                       StatementTransactions(c)[k].amount /= None

\* C9: a statement has been returned for a document whose last row holds the
\* amount text "--1,00" between a date and a description: the row gave no
\* transaction.
C9_Witness ==
  /\ kind = "c6"
  /\ buffer[1] = <<"marker15", "tx6and9", "tx5", "txBad">>
  /\ Emitted(1)
  /\ Len(StatementTransactions(1)) = 3

\* C8: first match wins, for every header field of both parser variants: while
\* extractHeader scans the rows, a field that a row has set keeps its value.
C8_FirstMatchWins ==
  [][\A c \in Calls :
       (running = c /\ pc[c] = "header" /\ pc'[c] = "header")
         => \A field \in DOMAIN header :
              header[field] /= None => header'[field] = header[field]]_vars

\* The card summaries and the cards of the statement that call c returned.
Summaries(c) == Val(StatementOf(c)).metadata.cardSummaries
Cards(c) == Val(StatementOf(c)).cards

\* The sum of the amounts of txs, payments, refunds and adjustments counted
\* positive and every other transaction negative.
RECURSIVE SignedSum(_)
SignedSum(txs) ==
  IF txs = <<>> THEN 0
  ELSE (IF txs[1].transaction_type \in {"payment", "refund", "adjustment"}
        THEN Val(txs[1].amount)
        ELSE 0 - Val(txs[1].amount))
       + SignedSum(Tail(txs))

Magnitude(n) == IF n < 0 THEN 0 - n ELSE n

\* C2, as stated: in every statement of the bank-specific parser, every card
\* block with a declared subtotal has transactions whose sum is, in absolute
\* value, the declared subtotal, and its subtotal difference is 0.
C2_Original ==
  \A c \in Calls :
    (kind = "c6" /\ Emitted(c))
      => \A k \in DOMAIN Summaries(c) :
           Summaries(c)[k].expectedSubtotal /= None
             => /\ Magnitude(SignedSum(Cards(c)[k].transactions))
                     = Val(Summaries(c)[k].expectedSubtotal)
                /\ Summaries(c)[k].subtotalDifference = Some(0)

\* C2, amended: in every statement of the bank-specific parser, a card block
\* with a declared subtotal has the subtotal difference 0 exactly when the
\* signed sum of its transactions is, in absolute value, the declared
\* subtotal; a block whose transactions do not add up is returned all the
\* same, with the difference it has.
C2_DifferenceZeroIffReconciled ==
  \A c \in Calls :
    (kind = "c6" /\ Emitted(c))
      => \A k \in DOMAIN Summaries(c) :
           Summaries(c)[k].expectedSubtotal /= None
             => (Summaries(c)[k].subtotalDifference = Some(0)
                   <=> Magnitude(SignedSum(Cards(c)[k].transactions))
                         = Val(Summaries(c)[k].expectedSubtotal))

\* C2: a statement has been returned whose first block adds up to its
\* declared 15,00 and whose second block declares 15,00 and holds a refund of
\* 5,00.
C2_Witness ==
  /\ kind = "c6"
  /\ buffer[1] = <<"marker15", "tx6and9", "marker15", "refund5">>
  /\ Emitted(1)
  /\ Summaries(1)[1].subtotalDifference = Some(0)
  /\ Summaries(1)[2].subtotalDifference = Some(0 - 1000)

\* C3: in every card summary of a returned statement, the computed subtotal is
\* the absolute value of the signed sum of the block's transactions, and the
\* subtotal difference is computed minus declared when a subtotal is declared
\* and null when none is.
C3_DifferenceIsComputedMinusDeclared ==
  \A c \in Calls :
    (kind = "c6" /\ Emitted(c))
      => \A k \in DOMAIN Summaries(c) :
           LET summary == Summaries(c)[k]
           IN  /\ summary.expectedSubtotal = Cards(c)[k].card_subtotal
               /\ summary.computedSubtotal
                    = Magnitude(SignedSum(Cards(c)[k].transactions))
               /\ summary.expectedSubtotal /= None
                    => summary.subtotalDifference
                         = Some(summary.computedSubtotal - Val(summary.expectedSubtotal))
               /\ summary.expectedSubtotal = None
                    => summary.subtotalDifference = None

\* C3: a statement has been returned with a block that declares 15,00 and
\* holds purchases of 6,00 and 9,00 and a refund of 5,00 (computed 10,00,
\* difference -5,00), and a block whose subtotal row gave no amount
\* (difference null).
C3_Witness ==
  /\ kind = "c6"
  /\ buffer[1] = <<"marker15", "tx6and9", "refund5", "markerNoValue">>
  /\ Emitted(1)
  /\ Summaries(1)[1].computedSubtotal = 1000
  /\ Summaries(1)[1].subtotalDifference = Some(0 - 500)
  /\ Summaries(1)[2].expectedSubtotal = None
  /\ Summaries(1)[2].subtotalDifference = None

\* The k-th smallest element of a set of numbers.
Nth(S, k) == CHOOSE i \in S : Cardinality({j \in S : j <= i}) = k

\* The rows of all at the positions of P, in their order.
RowsAt(all, P) == [k \in 1..Cardinality(P) |-> all[Nth(P, k)]]

\* The rows that match the subtotal-marker pattern.
MarkerRows(all) == {i \in DOMAIN all : MatchSubtotal(all[i].text) /= None}

\* The rows that open a block: the marker rows that hold no section title.
OpeningRows(all) ==
  {i \in MarkerRows(all) :
     ~IsAdditionalTitle(all[i].text) /\ ~IsPrincipalTitle(all[i].text)}

\* The rows after the marker row m up to the next row of markers, or up to the
\* end of the document.
RowsAfter(all, markers, m) ==
  {i \in DOMAIN all : i > m /\ \A n \in markers : n > m => i < n}

\* The rows among P that a block collects: those that hold no section title
\* and do not start with "Valores em reais".
Collected(all, P) ==
  {i \in P : /\ ~IsAdditionalTitle(all[i].text)
             /\ ~IsPrincipalTitle(all[i].text)
             /\ ~IsValuesNote(all[i].text)}

\* The blocks are final: extractCardBlocks has returned.
Segmented == running /= 0 /\ kind = "c6" /\ pc[running] = "assemble"

\* What C4 says of the blocks, for the rows all, the rows markers that open a
\* block and the rows between(m) that the block of the marker row m collects.
BlocksFollow(all, markers, between(_)) ==
  /\ Len(blocks) = Cardinality(markers)
  /\ \A k \in DOMAIN blocks :
       LET m == Nth(markers, k)
           match == Val(MatchSubtotal(all[m].text))
       IN  /\ blocks[k].rawSubtotalText = Slice(all[m].text, match.from, match.to)
           /\ blocks[k].transactions
                = extractTransactionsFromLines(RowsAt(all, between(m)), header.year,
                                               header.closingMonth, now)

\* C4, as stated: the block list has one block for each row that matches the
\* subtotal-marker pattern, in document order, and the transactions of each
\* block are those detected in the rows between its marker row and the next
\* marker row or the end of the document.
C4_Original ==
  Segmented
    => LET all == lines
           markers == MarkerRows(all)
           between(m) == RowsAfter(all, markers, m)
       IN  BlocksFollow(all, markers, between)

\* C4, amended: the block list has one block for each row that matches the
\* subtotal-marker pattern and holds no section title, in document order, and
\* the transactions of each block are those detected in the rows between its
\* marker row and the next such marker row or the end of the document that
\* hold no section title and do not start with "Valores em reais".
C4_BlocksFollowMarkers ==
  Segmented
    => LET all == lines
           markers == OpeningRows(all)
           between(m) == Collected(all, RowsAfter(all, markers, m))
       IN  BlocksFollow(all, markers, between)

\* C4: the rows marker, two transactions, marker, one transaction have been
\* segmented into a block of two transactions and a block of one.
C4_Witness ==
  /\ Segmented
  /\ buffer[running] = <<"marker15", "tx6and9", "marker15", "refund5">>
  /\ Len(blocks) = 2
  /\ Len(blocks[1].transactions) = 2
  /\ Len(blocks[2].transactions) = 1

(***************************************************************************)
(* A call on its own: what parse gives for a document when all its steps   *)
(* run one after the other at one time of the clock.                       *)
(***************************************************************************)
RECURSIVE C6HeaderFrom(_, _, _, _)
C6HeaderFrom(hdr, rows, i, clock) ==
  IF i > Len(rows) THEN hdr
  ELSE C6HeaderFrom(C6HeaderRow(hdr, rows[i].text, clock), rows, i + 1, clock)

RECURSIVE SegmentFrom(_, _, _, _, _)
SegmentFrom(st, rows, i, hdr, clock) ==
  IF i > Len(rows)
  THEN finalizeBlock(st.blocks, st.currentBlock,
                     CollectedLines(rows, st.collectingLines), hdr, clock)
  ELSE SegmentFrom(segmentRow(st, rows, i, hdr, clock), rows, i + 1, hdr, clock)

RECURSIVE LocalHeaderFrom(_, _, _, _)
LocalHeaderFrom(hdr, rows, i, clock) ==
  IF i > Len(rows) THEN hdr
  ELSE LocalHeaderFrom(LocalHeaderRow(hdr, rows[i].text, clock), rows, i + 1, clock)

RECURSIVE LocalTransactionsFrom(_, _, _, _)
LocalTransactionsFrom(rows, i, year, clock) ==
  IF i > Len(rows) THEN <<>>
  ELSE LocalLineTransaction(rows[i], year, clock)
       \o LocalTransactionsFrom(rows, i + 1, year, clock)

ParseAlone(parser, minimum, doc, clock) ==
  LET rows == LinesOf(doc)
  IN  IF parser = "c6"
      THEN LET hdr == C6HeaderFrom(EmptyHeader, rows, 1, clock)
               cardBlocks == SegmentFrom([blocks |-> <<>>, currentBlock |-> None,
                                          currentSection |-> "principal",
                                          collectingLines |-> <<>>],
                                         rows, 1, hdr, clock)
           IN  C6Result(hdr, cardBlocks, rows, minimum)
      ELSE LET hdr == LocalHeaderFrom(LocalEmptyHeader, HeaderSlice(rows), 1, clock)
           IN  LocalResult(hdr, LocalTransactionsFrom(rows, 1, hdr.year, clock),
                           rows, minimum)

\* C6: two calls of parse with the same buffer return the same statement,
\* whenever each of them runs.
C6_SameBufferSameStatement ==
  \A c, d \in Calls :
    (pc[c] = "done" /\ pc[d] = "done" /\ buffer[c] = buffer[d])
      => result[c] = result[d]

\* C7: a call that runs while another call of the same parser instance is
\* under way returns what it returns on its own: the result of its own buffer,
\* at a time of the clock between its start and its end.
C7_CallsIndependent ==
  \A c \in Calls :
    pc[c] = "done"
      => \E clock \in FirstYear..now :
           result[c] = Some(ParseAlone(kind, minimumTransactions, buffer[c], clock))

\* C7: call 1 has run through its rows and is about to return a statement
\* while call 2, made with another buffer before call 1 resumed, still waits
\* for its extraction.
C7_Witness ==
  /\ running = 1
  /\ pc[1] = "assemble"
  /\ pc[2] = "extracting"
  /\ buffer[1] /= buffer[2]
  /\ DetectedCount >= minimumTransactions

\* The text t without spaces, "R" and "$".
Unmarked(t) == SelectSeq(t, LAMBDA c : c \notin {" ", "R", "$"})

\* The position of the first "," of t, or Len(t) + 1.
CommaAt(t) ==
  IF \E i \in DOMAIN t : t[i] = ","
  THEN CHOOSE i \in DOMAIN t : t[i] = "," /\ \A j \in 1..(i - 1) : t[j] /= ","
  ELSE Len(t) + 1

\* An amount in the Brazilian notation, marks aside: digits and thousands
\* separators, then possibly one "," and digits.
IsBrazilianAmount(t) ==
  LET u == Unmarked(t)
      whole == Slice(u, 1, CommaAt(u) - 1)
      decimals == Slice(u, CommaAt(u) + 1, Len(u))
  IN  /\ \A i \in DOMAIN whole : IsDigit(whole[i]) \/ whole[i] = "."
      /\ \E i \in DOMAIN whole : IsDigit(whole[i])
      /\ \A i \in DOMAIN decimals : IsDigit(decimals[i])

\* Its value in cents, rounded to 2 decimals.
BrazilianAmountCents(t) ==
  LET u == Unmarked(t)
      whole == SelectSeq(Slice(u, 1, CommaAt(u) - 1), IsDigit)
      decimals == Slice(u, CommaAt(u) + 1, Len(u))
      decimal(i) == IF i <= Len(decimals) THEN DigitVal(decimals[i]) ELSE 0
  IN  100 * DigitsValue(whole) + 10 * decimal(1) + decimal(2)
      + (IF decimal(3) >= 5 THEN 1 ELSE 0)

\* C10: what parseCurrency returns is null or a number, whatever its
\* argument; for an amount in the Brazilian notation it is the amount with the
\* thousands separators removed and the decimal comma read as a decimal
\* point, rounded to 2 decimals ("1.234,56" gives 1234.56 and "R$ 45,00"
\* gives 45.00); for null, the empty string and every text without a digit it
\* is null.
C10_ParseCurrency ==
  currencyValue /= <<>>
       => LET amount == currencyValue[1]
          IN  /\ amount = None \/ (Len(amount) = 1 /\ amount[1] \in Int)
              /\ currencyText = None => amount = None
              /\ currencyText /= None
                   => LET t == Val(currencyText)
                      IN  /\ (\A i \in DOMAIN t : ~IsDigit(t[i])) => amount = None
                          /\ IsBrazilianAmount(t) => amount = Some(BrazilianAmountCents(t))
                          /\ t = <<"1", ".", "2", "3", "4", ",", "5", "6">>
                               => amount = Some(123456)
                          /\ t = <<"R", "$", " ", "4", "5", ",", "0", "0">>
                               => amount = Some(4500)

\* C10: parseCurrency has returned 12341.90 for "12.341,9", an amount with a
\* thousands separator and a decimal comma.
C10_Witness ==
  /\ currencyText = Some(<<"1", "2", ".", "3", "4", "1", ",", "9">>)
  /\ currencyValue = <<Some(1234190)>>

\* C11: when normalize has returned, the chunks of every row are in
\* non-decreasing x order.
C11_ChunksSortedByX ==
  npc = "done" =>
    \A r \in DOMAIN normLines :
      \A i \in 1..(Len(normLines[r].chunks) - 1) :
        normLines[r].chunks[i].x <= normLines[r].chunks[i + 1].x

\* C12: a call of parse whose extraction fails rejects with an Error and
\* returns no result object, neither a statement nor the null-statement
\* result; the extraction of a call is attempted once and never again.
C12_ExtractorFailureRejects ==
  [][\A c \in Calls :
       /\ thrown'[c] /= None =>
            /\ Val(thrown'[c]).isError
            /\ result'[c] = None
            /\ pdf'[c] = None
            /\ pc'[c] = "rejected"
       /\ pc[c] = "rejected" => pc'[c] = "rejected" /\ thrown'[c] = thrown[c]
       /\ pc'[c] = "extracting" => pc[c] \in {"idle", "extracting"}
       /\ pc'[c] = "idle" => pc[c] = "idle"]_vars

C12_Witness ==
  /\ pc[1] = "rejected"
  /\ thrown[1] = Some([isError |-> TRUE,
                       message |-> <<"Erro ao processar PDF: ", "bad XRef entry">>])
  /\ result[1] = None

\* The amount texts of a document: the trimmed texts of the chunks that
\* AMOUNT_REGEX accepts.
AmountTexts(doc) ==
  LET rows == LinesOf(doc)
  IN  {t \in UNION {{Trim(rows[r].chunks[j].text) : j \in DOMAIN rows[r].chunks} :
                      r \in DOMAIN rows} : AMOUNT_REGEX(t)}

\* C13: in every statement of the bank-specific parser, the amount of every
\* transaction is the parsed value of an amount chunk of the document, not
\* negative when the chunk is printed without a minus sign, whatever the
\* transaction's type; getSignedAmount gives +amount for a payment, refund or
\* adjustment and -amount for every other type; and the computed subtotal of
\* every card is the absolute value of the sum of these signed amounts.
C13_SignConvention ==
  \A c \in Calls :
    (kind = "c6" /\ Emitted(c))
      => /\ \A k \in DOMAIN StatementTransactions(c) :
              LET tx == StatementTransactions(c)[k]
              IN  /\ \E t \in AmountTexts(buffer[c]) :
                        /\ tx.amount = parseCurrency(Some(t))
                        /\ t[1] /= "-" => Val(tx.amount) >= 0
                  /\ getSignedAmount(tx)
                       = IF tx.transaction_type \in {"payment", "refund", "adjustment"}
                         THEN Val(tx.amount)
                         ELSE 0 - Val(tx.amount)
         /\ \A k \in DOMAIN Summaries(c) :
              Summaries(c)[k].computedSubtotal
                = Magnitude(SignedSum(Cards(c)[k].transactions))

\* C13: a statement has been returned with purchases of 6,00 and 9,00 and a
\* refund printed as 5,00: the refund's amount is 5,00, and the card's
\* computed subtotal is 10,00.
C13_Witness ==
  /\ kind = "c6"
  /\ buffer[1] = <<"marker15", "tx6and9", "refund5">>
  /\ Emitted(1)
  /\ StatementTransactions(1)[3].transaction_type = "refund"
  /\ StatementTransactions(1)[3].amount = Some(500)
  /\ Summaries(1)[1].computedSubtotal = 1000

\* 'c6' and its aliases as a caller may spell them.
C6Spellings ==
  C6Aliases \cup {<<"C6", " ", "Bank">>, <<" ", "c6", "-", "bank", " ">>}

\* C14: in every registry createDefaultStatementParserRegistry builds, with
\* or without a banks list, resolve of 'c6' or of one of its aliases
\* ('c6 bank', 'c6-bank', 'c6bank'), in any case and with spaces around it,
\* returns a C6BankStatementParser under the normalized name with isFallback
\* false.
C14_C6AliasesResolve ==
  (resolved # <<>> /\ Val(bankArg) \in C6Spellings)
    => /\ resolved[1] # None
       /\ Val(resolved[1]).parser.class = "C6BankStatementParser"
       /\ Val(resolved[1]).bankKey \in C6Aliases
       /\ ~Val(resolved[1]).isFallback

\* resolve('C6 Bank') has returned in a registry built with a banks list that
\* names neither 'c6' nor an alias.
C14_Witness ==
  /\ resolved # <<>>
  /\ bankArg = Some(<<"C6", " ", "Bank">>)
  /\ options # None
  /\ options.banks = Some(<<<<"nubank">>>>)
  /\ resolved[1] # None
  /\ Val(resolved[1]).parser.class = "C6BankStatementParser"

\* The name is registered: this.factories.has(this.normalize(name)).
Registered(name) == HasKey(factories, normalize(name))

\* The generic parser is registered whatever banks list is given.
GenericRegistered ==
  /\ HasKey(factories, <<"generic">>)
  /\ ValueOf(factories, <<"generic">>) = "genericFactory"

\* Without a defaultBank option, resolve of a name that is not registered
\* returns the generic LocalStatementParser with isFallback true.
FallbackIsGeneric ==
  (/\ resolved # <<>>
   /\ (options = None \/ options.defaultBank = None)
   /\ ~Registered(Val(bankArg)))
    => /\ resolved[1] # None
       /\ Val(resolved[1]).parser.class = "LocalStatementParser"
       /\ Val(resolved[1]).bankKey = <<"generic">>
       /\ Val(resolved[1]).isFallback

\* resolve has returned null.
ReturnedNull == resolved # <<>> /\ resolved[1] = None

\* C15 as stated: the generic parser is always registered; with the default
\* options a name that is not registered resolves to the generic
\* LocalStatementParser with isFallback true; resolve returns null only when
\* the configured default bank is itself not registered.
C15_NullOnlyWithoutDefault ==
  /\ GenericRegistered
  /\ FallbackIsGeneric
  /\ ReturnedNull => ~Registered(DefaultBankOf(options))

\* C15, amended: the generic parser is always registered; with the default
\* options a name that is not registered resolves to the generic
\* LocalStatementParser with isFallback true; resolve returns null only when
\* the configured default bank is blank (empty once trimmed) or itself not
\* registered.
C15_NullOnlyWithoutUsableDefault ==
  /\ GenericRegistered
  /\ FallbackIsGeneric
  /\ ReturnedNull =>
       \/ Trim(DefaultBankOf(options)) = <<>>
       \/ ~Registered(DefaultBankOf(options))

\* resolve has returned null although the configured default bank, a blank
\* name, is registered through the banks list.
C15_Witness ==
  /\ ReturnedNull
  /\ Trim(DefaultBankOf(options)) = <<>>
  /\ Registered(DefaultBankOf(options))
  /\ ~Registered(Val(bankArg))

\* What a request carries, read off the request itself.  The file: the
\* upload of a request without parts(), else the first file part of the
\* field 'file'.
FileOf(req) ==
  IF req.multipart = "none" THEN None
  ELSE IF req.multipart = "file" THEN req.upload
  ELSE LET at == {i \in DOMAIN req.parts :
                    req.parts[i].type = "file" /\ req.parts[i].fieldname = "file"}
       IN IF at = {} THEN None
          ELSE Some(req.parts[CHOOSE i \in at : \A j \in at : i <= j])

\* The value is a string that is not blank.
Filled(value) ==
  /\ value # None
  /\ value.type = "string"
  /\ \E i \in DOMAIN value.text : value.text[i] # " "

\* The multipart bank: the last field 'bank' whose value (the first one, of
\* several) is a string that is not blank, trimmed.
FormBankOf(req) ==
  LET first(v) == IF v.type = "array"
                  THEN IF v.items = <<>> THEN None ELSE v.items[1]
                  ELSE v
      at == {i \in DOMAIN req.parts :
               /\ req.parts[i].type = "field"
               /\ req.parts[i].fieldname = "bank"
               /\ Filled(first(req.parts[i].value))}
  IN IF req.multipart # "parts" \/ at = {} THEN None
     ELSE Some(Trim(first(req.parts[CHOOSE i \in at : \A j \in at : i >= j].value).text))

QueryBankOf(req) ==
  IF req.query # None /\ Filled(Val(req.query)) THEN Some(Trim(Val(req.query).text))
  ELSE None

HeaderBankOf(req) ==
  IF Filled(req.xBank) THEN Some(Trim(req.xBank.text))
  ELSE IF req.xBank # None /\ req.xBank.type = "array"
            /\ \E i \in DOMAIN req.xBank.items : Filled(req.xBank.items[i])
       THEN LET at == {i \in DOMAIN req.xBank.items : Filled(req.xBank.items[i])}
            IN Some(Trim(req.xBank.items[CHOOSE i \in at : \A j \in at : i <= j].text))
       ELSE None

\* The bank by precedence: form, then query, then header.
BankOf(req) ==
  IF FormBankOf(req) # None THEN FormBankOf(req)
  ELSE IF QueryBankOf(req) # None THEN QueryBankOf(req)
  ELSE HeaderBankOf(req)

\* The mimetype of the file holds 'pdf'.
PdfFile(file) ==
  /\ file.mimetype # None
  /\ \E i \in DOMAIN Val(file.mimetype) : Val(file.mimetype)[i] = "pdf"

\* A file is there, its mimetype holds 'pdf', and a bank name was found.
Acceptable(req) ==
  /\ FileOf(req) # None
  /\ PdfFile(Val(FileOf(req)))
  /\ BankOf(req) # None

\* The message for what the request misses first.
MessageFor(req) ==
  IF FileOf(req) = None THEN "Arquivo PDF não enviado. Utilize o campo 'file'."
  ELSE IF ~PdfFile(Val(FileOf(req))) THEN "Arquivo inválido. Envie uma fatura em formato PDF."
  ELSE "Campo 'bank' é obrigatório."

C17_BankPrecedence ==
  executed # <<>>
    => /\ executed[1].bank = Val(BankOf(Val(request)))
       /\ executed[1].fileBuffer = Val(FileOf(Val(request))).content
       /\ FormBankOf(Val(request)) # None
            => executed[1].bank = Val(FormBankOf(Val(request)))
       /\ (FormBankOf(Val(request)) = None /\ QueryBankOf(Val(request)) # None)
            => executed[1].bank = Val(QueryBankOf(Val(request)))
       /\ (FormBankOf(Val(request)) = None /\ QueryBankOf(Val(request)) = None)
            => executed[1].bank = Val(HeaderBankOf(Val(request)))

\* The use case was called with the bank of the header although the query
\* string has a (blank) 'bank' too, the payload having none.
C17_Witness ==
  /\ executed # <<>>
  /\ FormBankOf(Val(request)) = None
  /\ Val(request).query = Some(Str(<<" ">>))
  /\ Val(request).xBank = Arr(<<Str(<<" ">>), Str(<<" ", "itau">>)>>)
  /\ executed[1].bank = <<"itau">>

\* The rows of the documents by what the segmenter takes them for: a row
\* that holds a section title, and a row that opens a block (a subtotal
\* marker without a title).
TitleRowIds == {"principal", "adicionais", "titleAndMarker"}
OpeningRowIds == {"marker15", "markerNoValue"}
SectionOfTitle(id) == IF id = "adicionais" THEN "adicionais" ELSE "principal"

\* The loop of extractCardBlocks is at the row idx of the document.
Segmenting ==
  /\ running /= 0 /\ kind = "c6" /\ pc[running] = "blocks"
  /\ idx <= Len(Val(pdf[running]))

\* The section that is current when the row m of doc is read: that of the
\* last title row before it, principal when there is none.
SectionBefore(doc, m) ==
  LET titles == {i \in 1..(m - 1) : doc[i] \in TitleRowIds}
  IN  IF titles = {} THEN "principal"
      ELSE SectionOfTitle(doc[CHOOSE i \in titles : \A j \in titles : j <= i])

\* The rows before the row i of doc that open a block.
OpenedBefore(doc, i) == {m \in 1..(i - 1) : m <= Len(doc) /\ doc[m] \in OpeningRowIds}

\* C18: reading a section-title row changes the current section and nothing
\* else: the block list, the open block (with its section) and its buffered
\* rows stay as they are; and every block, finalized or open, carries the
\* section that was current when its marker row was read, principal before
\* any title.
C18_TitleOnlySetsSection ==
  /\ [][(Segmenting /\ idx' = idx + 1 /\ Val(pdf[running])[idx] \in TitleRowIds)
          => /\ blocks' = blocks
             /\ currentBlock' = currentBlock
             /\ collectingLines' = collectingLines
             /\ currentSection' = SectionOfTitle(Val(pdf[running])[idx])]_vars
  /\ []((running /= 0 /\ kind = "c6" /\ pc[running] \in {"blocks", "assemble"})
          => LET doc == Val(pdf[running])
                 opened == OpenedBefore(doc, idx)
             IN  /\ \A k \in DOMAIN blocks :
                      /\ k <= Cardinality(opened)
                      /\ blocks[k].section = SectionBefore(doc, Nth(opened, k))
                 /\ currentBlock /= None
                      => /\ opened /= {}
                         /\ Val(currentBlock).section
                              = SectionBefore(doc, Nth(opened, Cardinality(opened))))

\* The title of the additional cards was read while the block of a marker
\* read under 'principal' was open with a buffered row: the block is still
\* open, with its section and its row.
C18_Witness ==
  /\ running /= 0 /\ kind = "c6" /\ pc[running] = "blocks"
  /\ idx = 4
  /\ SubSeq(Val(pdf[running]), 1, 3) = <<"marker15", "tx6and9", "adicionais">>
  /\ blocks = <<>>
  /\ currentBlock /= None
  /\ Val(currentBlock).section = "principal"
  /\ collectingLines = <<2>>
  /\ currentSection = "adicionais"

\* The rows of doc from the row after m up to the row before i that a block
\* buffers: those that hold no title, open no block and do not start with
\* "Valores em reais".
BufferedBetween(doc, m, i) ==
  {j \in (m + 1)..(i - 1) :
     /\ j <= Len(doc)
     /\ doc[j] \notin TitleRowIds \cup OpeningRowIds
     /\ ~IsValuesNote(RowOf(doc[j]).text)}

\* The last element of a non-empty set of numbers.
Last(S) == CHOOSE i \in S : \A j \in S : j <= i

\* The loop of extractCardBlocks is finalizing the open block: it reads a row
\* that opens a block, or the document is at its end.
AtMarker == Segmenting /\ idx' = idx + 1 /\ Val(pdf[running])[idx] \in OpeningRowIds
AtEnd ==
  /\ running /= 0 /\ kind = "c6" /\ pc[running] = "blocks"
  /\ idx > Len(Val(pdf[running]))
  /\ pc'[running] = "assemble"

\* blks is blocks with the open block at its end, its transactions those
\* detected in the rows it has buffered.
Finalized(blks) ==
  /\ Len(blks) = Len(blocks) + 1
  /\ SubSeq(blks, 1, Len(blocks)) = blocks
  /\ blks[Len(blks)]
       = [Val(currentBlock) EXCEPT !.transactions =
            extractTransactionsFromLines(CollectedLines(lines, collectingLines),
                                         header.year, header.closingMonth, now)]

\* C19: at most one block is open at a time; a block that is opened is
\* finalized once, when the next row that opens a block is read or at the end
\* of the document, and is then in the block list once: the blocks opened so
\* far are those of the list and the open one; the list changes at no other
\* step; the open block has no transactions until it is finalized, and then
\* has those detected in the rows buffered since its marker row.
C19_BlockLifecycle ==
  /\ [][/\ (AtMarker \/ AtEnd)
             => IF currentBlock = None THEN blocks' = blocks ELSE Finalized(blocks')
        /\ AtMarker => /\ currentBlock' /= None
                       /\ Val(currentBlock').transactions = <<>>
                       /\ collectingLines' = <<>>
        /\ AtEnd => currentBlock' = None
        /\ (running /= 0 /\ kind = "c6" /\ pc[running] = "blocks"
            /\ ~AtMarker /\ ~AtEnd)
             => blocks' = blocks /\ currentBlock' = currentBlock]_vars
  /\ []((running /= 0 /\ kind = "c6" /\ pc[running] \in {"blocks", "assemble"})
          => LET doc == Val(pdf[running])
                 opened == OpenedBefore(doc, idx)
             IN  /\ Len(blocks) + (IF currentBlock = None THEN 0 ELSE 1)
                      = Cardinality(opened)
                 /\ pc[running] = "assemble" => currentBlock = None
                 /\ currentBlock /= None
                      => /\ Val(currentBlock).transactions = <<>>
                         /\ opened /= {}
                         /\ collectingLines
                              = [k \in 1..Cardinality(BufferedBetween(doc, Last(opened), idx))
                                   |-> Nth(BufferedBetween(doc, Last(opened), idx), k)])

\* A second marker row was read while the block of the first was open with
\* a buffered row: the first block is in the list, once, with the two
\* transactions of that row, and the block of the second marker is open.
C19_Witness ==
  /\ running /= 0 /\ kind = "c6" /\ pc[running] = "blocks"
  /\ idx = 4
  /\ SubSeq(Val(pdf[running]), 1, 3) = <<"marker15", "tx6and9", "marker15">>
  /\ Len(blocks) = 1
  /\ Len(blocks[1].transactions) = 2
  /\ currentBlock /= None
  /\ Val(currentBlock).transactions = <<>>
  /\ collectingLines = <<>>

(***************************************************************************)
(* The bank-specific parser built with a minimumTransactions of its        *)
(* caller's choice, on documents that may have rows before their first     *)
(* subtotal marker, or no marker at all.                                   *)
(***************************************************************************)
MaxCardRows == 3
MaxMinimum == 3

ThresholdRows == {"adicionais", "marker15", "tx6and9", "refund5", "noteAndTx"}

InitThresholds ==
  /\ now = FirstYear
  /\ kind = "c6"
  /\ minimumTransactions \in 0..MaxMinimum
  /\ pc = [c \in Calls |-> IF c = 1 THEN "idle" ELSE "absent"]
  /\ \E doc \in DocsUpTo(ThresholdRows, MaxCardRows) :
       buffer = [c \in Calls |-> IF c = 1 THEN doc ELSE <<>>]
  /\ pdf = [c \in Calls |-> None]
  /\ result = [c \in Calls |-> None]
  /\ running = 0
  /\ NoFrame
  /\ NoCurrency
  /\ NoNormalizer
  /\ NoThrown
  /\ NoService
  /\ NoAside

SpecThresholds == InitThresholds /\ [][NextC6]_vars

\* The transactions of each block of a block list.
TransactionsOf(blks) == [k \in DOMAIN blks |-> blks[k].transactions]

\* The document without the rows before the row m.
RowsFrom(doc, m) == SubSeq(doc, m, Len(doc))

\* The first element of a non-empty set of numbers.
First(S) == CHOOSE i \in S : \A j \in S : i <= j

\* C20: while no block is open no row is buffered, and up to the first row
\* that opens a block there is no block at all; the rows before that row
\* give no transaction: the blocks have the transactions they have for the
\* document without those rows; a document without a row that opens a block
\* gives no block and, when minimumTransactions is at least 1, a null
\* statement.
C20_RowsBeforeFirstMarker ==
  /\ (running /= 0 /\ kind = "c6" /\ pc[running] \in {"blocks", "assemble"})
       => LET doc == Val(pdf[running])
              opened == OpenedBefore(doc, idx)
          IN  /\ currentBlock = None => collectingLines = <<>>
              /\ opened = {} => blocks = <<>> /\ currentBlock = None
              /\ (pc[running] = "assemble" /\ opened /= {})
                   => TransactionsOf(blocks)
                        = TransactionsOf(
                            SegmentFrom([blocks |-> <<>>, currentBlock |-> None,
                                         currentSection |-> "principal",
                                         collectingLines |-> <<>>],
                                        LinesOf(RowsFrom(doc, First(opened))), 1,
                                        header, now))
  /\ \A c \in Calls :
       (/\ pc[c] = "done"
        /\ \A i \in DOMAIN Val(pdf[c]) : Val(pdf[c])[i] \notin OpeningRowIds
        /\ minimumTransactions >= 1)
         => Val(result[c]).statement = None

\* Two rows of transactions were read before any marker row: no block is
\* open, none is in the list and no row is buffered.
C20_Witness ==
  /\ running /= 0 /\ kind = "c6" /\ pc[running] = "blocks"
  /\ idx = 3
  /\ Val(pdf[running]) = <<"tx6and9", "refund5", "marker15">>
  /\ blocks = <<>>
  /\ currentBlock = None
  /\ collectingLines = <<>>
  /\ minimumTransactions = 1

\* The chunks of a row that the detector looks at: those that are not blank,
\* trimmed.
Visible(texts) ==
  SelectSeq([i \in DOMAIN texts |-> Trim(texts[i])], LAMBDA t : t /= <<>>)

IsDateLike(t) == MatchDateChunk(t) /= None
IsAmountLike(t) == AMOUNT_REGEX(t)

\* The groups of a row, each by the positions of its first and last chunk: a
\* date-like chunk, then at least one chunk that is neither date-like nor
\* amount-like, then an amount-like chunk.
GroupsOf(v) ==
  {g \in (DOMAIN v) \X (DOMAIN v) :
     /\ g[1] + 1 < g[2]
     /\ IsDateLike(v[g[1]])
     /\ IsAmountLike(v[g[2]]) /\ ~IsDateLike(v[g[2]])
     /\ \A k \in (g[1] + 1)..(g[2] - 1) : ~IsDateLike(v[k]) /\ ~IsAmountLike(v[k])}

\* The interior chunks of a group joined by single spaces, white space
\* collapsed.
DescriptionOf(v, g) ==
  Trim(CollapseSpaces(JoinWith(SubSeq(v, g[1] + 1, g[2] - 1), <<" ">>)))

\* The groups of a row in their order, as (description, amount) pairs, those
\* without a parsable amount left out.
RECURSIVE PairsFrom(_, _)
PairsFrom(v, i) ==
  IF i > Len(v) THEN <<>>
  ELSE IF \E g \in GroupsOf(v) : g[1] = i
       THEN LET g == CHOOSE h \in GroupsOf(v) : h[1] = i
            IN  (IF parseCurrency(Some(v[g[2]])) = None THEN <<>>
                 ELSE <<[description |-> DescriptionOf(v, g),
                         amount |-> parseCurrency(Some(v[g[2]]))]>>)
                \o PairsFrom(v, i + 1)
       ELSE PairsFrom(v, i + 1)

RECURSIVE PairsOfRows(_)
PairsOfRows(doc) ==
  IF doc = <<>> THEN <<>> ELSE PairsFrom(Visible(doc[1]), 1) \o PairsOfRows(Tail(doc))

\* C21: the transactions the detector emits are, row by row and in their
\* order, those of the groups of the row: a date-like chunk, then at least
\* one chunk, then the first amount-like chunk after it; the description is
\* the interior chunks joined by single spaces with white space collapsed,
\* and is not empty; chunks before the first date-like chunk of a row are in
\* no group; a row may give several transactions.
C21_TransactionsFromGroups ==
  returned /= <<>>
    => /\ [k \in DOMAIN returned[1] |->
             [description |-> returned[1][k].description,
              amount |-> returned[1][k].amount]]
            = PairsOfRows(Val(argument))
       /\ \A k \in DOMAIN returned[1] : returned[1][k].description /= <<>>

\* A row of two groups gave two transactions, the second with the
\* description "Loja 2/3".
C21_Witness ==
  /\ returned /= <<>>
  /\ Val(argument) = <<<<<<"0", "5", " ", "jan">>, <<" ", "Loja", " ">>, T_6_00,
                         <<"0", "5", " ", "jan">>, <<"Loja", " ", " ", "2", "/", "3">>,
                         T_6_00>>>>
  /\ Len(returned[1]) = 2
  /\ returned[1][2].description = <<"Loja", " ", "2", "/", "3">>

\* The date-like chunks of a row that start a group without an amount: no
\* amount-like chunk follows before the next date-like chunk or the end of
\* the row.
Dangling(v) ==
  {i \in DOMAIN v :
     /\ IsDateLike(v[i])
     /\ \A k \in (i + 1)..Len(v) :
          IsAmountLike(v[k]) => \E d \in (i + 1)..k : IsDateLike(v[d])}

\* The row without the chunks of those groups.
WithoutDangling(v) ==
  LET inGroup(j) == \E i \in Dangling(v) :
                      i <= j /\ \A d \in (i + 1)..j : ~IsDateLike(v[d])
      kept == {j \in DOMAIN v : ~inGroup(j)}
  IN  [k \in 1..Cardinality(kept) |-> v[Nth(kept, k)]]

\* A row of the document has a group without an amount and, after it, a
\* group with one.
DanglingThenWhole(doc) ==
  \E r \in DOMAIN doc :
    \E i \in Dangling(Visible(doc[r])) :
      \/ \E g \in GroupsOf(Visible(doc[r])) : g[1] > i
      \/ \E q \in (r + 1)..Len(doc) : GroupsOf(Visible(doc[q])) /= {}

\* C22: a group that a date-like chunk starts and that meets another
\* date-like chunk or the end of its row before any amount-like chunk gives
\* no transaction and no error: the detector returns, and returns what it
\* returns for the rows without the chunks of such groups, so that the groups
\* after such a group, in the same row and in later rows, are all emitted.
C22_DanglingGroupsSkipped ==
  returned /= <<>>
    => /\ returned[1]
            = extractTransactionsFromLines(
                [r \in DOMAIN Val(argument) |->
                   line(WithoutDangling(Visible(Val(argument)[r])))],
                None, None, now)
       /\ Len(returned[1])
            >= Cardinality({p \in (DOMAIN Val(argument)) \X (1..MaxChunks) :
                              \E g \in GroupsOf(Visible(Val(argument)[p[1]])) :
                                /\ g[1] = p[2]
                                /\ parseCurrency(Some(Visible(Val(argument)[p[1]])[g[2]]))
                                     /= None})

\* A row that starts with a date-like chunk and a word, then holds a whole
\* group, gave the one transaction of that group.
C22_Witness ==
  /\ returned /= <<>>
  /\ Val(argument) = <<<<<<"0", "5", " ", "jan">>, <<" ", "Loja", " ">>,
                         <<"0", "5", " ", "jan">>, <<"Loja", " ", " ", "2", "/", "3">>,
                         T_6_00>>>>
  /\ DanglingThenWhole(Val(argument))
  /\ Len(returned[1]) = 1
  /\ returned[1][1].description = <<"Loja", " ", "2", "/", "3">>

\* The lowercased description holds one of the words.
Mentions(d, words) == \E i \in DOMAIN d : Fold(d[i]) \in words

\* The description holds digits, a slash and digits (N/M).
HasNM(d) ==
  \E i \in DOMAIN d :
    /\ i + 2 <= Len(d)
    /\ d[i] \in Digits /\ d[i + 1] = "/" /\ d[i + 2] \in Digits

\* The type by the first test that matches, in the order refund, payment,
\* adjustment, fee, installment (a keyword or N/M), else purchase.
FirstMatch(d) ==
  CASE Mentions(d, RefundWords) -> "refund"
    [] ~Mentions(d, RefundWords) /\ Mentions(d, PaymentWords) -> "payment"
    [] ~Mentions(d, RefundWords \cup PaymentWords) /\ Mentions(d, AdjustmentWords)
         -> "adjustment"
    [] ~Mentions(d, RefundWords \cup PaymentWords \cup AdjustmentWords)
       /\ Mentions(d, FeeWords) -> "fee"
    [] ~Mentions(d, RefundWords \cup PaymentWords \cup AdjustmentWords \cup FeeWords)
       /\ (Mentions(d, InstallmentWords) \/ HasNM(d)) -> "installment"
    [] OTHER -> "purchase"

\* C23: the bank-specific determineTransactionType gives the type of the
\* first test that matches in the order refund, payment, adjustment, fee,
\* installment keywords or N/M, and 'purchase' when none does; the
\* installment current and total are both set when the description has an
\* N/M pattern (so whenever the type is 'installment' because of one) and
\* both null when it has none.
C23_TypeByFirstMatch ==
  returned /= <<>>
    => /\ returned[1].type = FirstMatch(Val(argument))
       /\ HasNM(Val(argument))
            => /\ returned[1].installment.current /= None
               /\ returned[1].installment.total /= None
       /\ ~HasNM(Val(argument))
            => /\ returned[1].installment.current = None
               /\ returned[1].installment.total = None

\* "Loja 2/3" was classified: an installment, 2 of 3.
C23_Witness ==
  /\ returned /= <<>>
  /\ Val(argument) = <<"Loja", "2", "/", "3">>
  /\ returned[1].type = "installment"
  /\ returned[1].installment = [current |-> Some(2), total |-> Some(3)]

\* C24: for every description the generic parser's determineTransactionType
\* returns the type the bank-specific one returns.
C24_SameTypeInBothParsers ==
  returned /= <<>> => returned[1].localType = returned[1].type

\* C25: a transaction the generic parser emits for a row has the row's
\* leftmost chunk as its date, the chunks strictly between the leftmost and
\* the rightmost as its description, and the parsed value of the rightmost
\* chunk alone as its amount.
C25_RightmostChunkAloneIsAmount ==
  (returned /= <<>> /\ returned[1] /= <<>>) =>
    \E sorted \in {SortByX(Val(argument).chunks)} :
      /\ Len(sorted) >= 3
      /\ returned[1][1].date = parseDate(Some(sorted[1].text), None, now)
      /\ returned[1][1].description
           = buildDescription(Slice(sorted, 2, Len(sorted) - 1))
      /\ returned[1][1].amount = parseCurrency(Some(sorted[Len(sorted)].text))

RECURSIVE SumOfY(_)
SumOfY(cs) == IF cs = <<>> THEN 0 ELSE cs[1].y + SumOfY(Tail(cs))

Distance(a, b) == IF a < b THEN b - a ELSE a - b

\* The fragment is within the tolerance of the row: |y - mean y| <= 2, with
\* the mean kept as a sum over a number.
WithinTolerance(row, c) ==
  Distance(c.y * Len(row.chunks), SumOfY(row.chunks)) <= 2 * Len(row.chunks)

\* The chunk the normalizer makes of the item i of the page p.
FragmentOf(p, i) ==
  [page |-> p, text |-> Val(decodeTextItem(document[p][i])), x |-> document[p][i].x,
   y |-> document[p][i].y, width |-> document[p][i].w, spacing |-> document[p][i].sw]

\* The items of the document with a non-blank text, as <<page, index>>.
NonBlankItems ==
  {pi \in UNION {{<<p, i>> : i \in DOMAIN document[p]} : p \in DOMAIN document} :
     decodeTextItem(document[pi[1]][pi[2]]) /= None}

\* The places <<row, index>> of the chunks of the returned rows.
Places == UNION {{<<r, i>> : i \in DOMAIN normLines[r].chunks} : r \in DOMAIN normLines}

C26_JoinWithinTolerance ==
  (npc = "group" /\ gidx' = gidx + 1 /\ gidx \in DOMAIN chunks) =>
    IF /\ grouped /= <<>>
       /\ grouped[Len(grouped)].page = chunks[gidx].page
       /\ WithinTolerance(grouped[Len(grouped)], chunks[gidx])
    THEN /\ Len(grouped') = Len(grouped)
         /\ grouped'[Len(grouped)].chunks
              = Append(grouped[Len(grouped)].chunks, chunks[gidx])
         /\ \A r \in 1..(Len(grouped) - 1) : grouped'[r] = grouped[r]
    ELSE /\ Len(grouped') = Len(grouped) + 1
         /\ grouped'[Len(grouped')].chunks = <<chunks[gidx]>>
         /\ \A r \in DOMAIN grouped : grouped'[r] = grouped[r]

C26_RowsPartitionFragments ==
  /\ \A r \in DOMAIN grouped :
       /\ grouped[r].chunks /= <<>>
       /\ grouped[r].ySum = SumOfY(grouped[r].chunks)
  /\ npc = "done" =>
       /\ \A r \in DOMAIN normLines : normLines[r].chunks /= <<>>
       /\ Cardinality(Places) = Cardinality(NonBlankItems)
       /\ \A pi \in NonBlankItems :
            Cardinality({pl \in Places :
                           normLines[pl[1]].chunks[pl[2]] = FragmentOf(pi[1], pi[2])})
              = Cardinality({qi \in NonBlankItems :
                               /\ qi[1] = pi[1]
                               /\ FragmentOf(qi[1], qi[2]) = FragmentOf(pi[1], pi[2])})
       /\ NonBlankItems = {} => normLines = <<>>

\* C26: in groupChunksByLine a fragment joins the current row exactly when it
\* is on the row's page and within yTolerance of the mean y of the row's
\* members, and otherwise starts a new row; a row's y is the mean of its
\* members' y; when normalize has returned, every fragment with non-blank
\* text is in exactly one row, no row is empty, and a document without such
\* fragments has no rows.
C26_RowGrouping == []C26_RowsPartitionFragments /\ [][C26_JoinWithinTolerance]_vars

\* C26: normalize has returned one row of three fragments at y 0, 2 and 3:
\* the third is 3 away from the first and 2 away from the mean of the first
\* two.
C26_Witness ==
  /\ npc = "done"
  /\ Len(normLines) = 1
  /\ Len(normLines[1].chunks) = 3
  /\ normLines[1].chunks[1].y = 0
  /\ normLines[1].chunks[2].y = 2
  /\ normLines[1].chunks[3].y = 3

\* The value that a footer row of the invoice total shows, when it parses.
FooterTotalOf(id) ==
  CASE id = "footer15" -> Some(1500)
    [] id = "footer20" -> Some(2000)
    [] OTHER -> None

\* The value that a footer row of the minimum payment shows, when it parses.
FooterMinimumOf(id) ==
  CASE id = "footerMinimum9" -> Some(900)
    [] OTHER -> None

\* The value of the first row of the document that shows one, or None.
FirstShown(doc, Shown(_)) ==
  IF \A i \in DOMAIN doc : Shown(doc[i]) = None THEN None
  ELSE Shown(doc[First({i \in DOMAIN doc : Shown(doc[i]) /= None})])

\* C27: the statement that the bank-specific parser emits has as
\* total_amount_due the header's total when the header scan has one,
\* otherwise the value of the first row of the document that matches
\* VALOR TOTAL and parses, otherwise null; minimum_payment likewise with the
\* header's minimum payment and the rows that match PAGAMENTO MÍNIMO.
C27_TotalsHeaderThenFooter ==
  [][\A c \in Calls :
       (pc[c] = "assemble" /\ pc'[c] = "done" /\ kind = "c6"
          /\ result'[c] /= None /\ Val(result'[c]).statement /= None) =>
         /\ Val(Val(result'[c]).statement).total_amount_due
              = IF header.totalAmount /= None THEN header.totalAmount
                ELSE FirstShown(buffer[c], FooterTotalOf)
         /\ Val(Val(result'[c]).statement).minimum_payment
              = IF header.minimumPayment /= None THEN header.minimumPayment
                ELSE FirstShown(buffer[c], FooterMinimumOf)]_vars

\* C27: a statement was emitted for a document whose header rows gave no
\* total and whose first VALOR TOTAL row does not parse: the total is the
\* value of the second one, and the minimum payment is the header's.
C27_Witness ==
  /\ pc[1] = "done"
  /\ buffer[1] = <<"totalBad", "footerBad", "footer15", "minimum5">>
  /\ result[1] /= None
  /\ Val(result[1]).statement /= None
  /\ Val(Val(result[1]).statement).total_amount_due = Some(1500)
  /\ Val(Val(result[1]).statement).minimum_payment = Some(500)

\* The service's extractFromPdf fails: the local one when no parser result
\* came or the result has no statement, any other when its promise rejects.
Fails(svc) ==
  IF ~svc.does.ok THEN TRUE
  ELSE svc.type = "local" /\ svc.does.value.statement = None

\* The local service whose parser gave a result without a statement.
NullStatement(svc) ==
  svc.type = "local" /\ svc.does.ok /\ svc.does.value.statement = None

\* What a service that does not fail gives.
GivenBy(svc) ==
  IF svc.type = "local" THEN Val(svc.does.value.statement) ELSE svc.does.value

\* The message of the error of a service that fails.
FailureOf(svc) ==
  IF ~svc.does.ok THEN svc.does.error.message
  ELSE <<"Parser local não encontrou dados suficientes.">>

\* The entries #1: .., #2: .. of the services up to n, separated by ' | '.
RECURSIVE EntriesUpTo(_)
EntriesUpTo(n) ==
  IF n = 0 THEN <<>>
  ELSE EntriesUpTo(n - 1) \o (IF n > 1 THEN <<" | ">> ELSE <<>>)
       \o <<"#", <<"1", "2", "3", "4", "5", "6", "7", "8", "9">>[n], ":", " ">>
       \o FailureOf(services[n])

C28_InOrderUntilSuccess ==
  /\ invoked = [i \in 1..Len(invoked) |-> i]
  /\ Len(invoked) <= Len(services)
  /\ \A i \in 1..(Len(invoked) - 1) : Fails(services[i])
  /\ cpc = "returned" =>
       /\ invoked /= <<>>
       /\ ~Fails(services[Len(invoked)])
       /\ outcome = Some([ok |-> TRUE, value |-> GivenBy(services[Len(invoked)])])
  /\ cpc = "thrown" =>
       /\ Len(invoked) = Len(services)
       /\ \A i \in DOMAIN services : Fails(services[i])
       /\ outcome /= None
       /\ ~Val(outcome).ok
       /\ Val(outcome).error.message
            = <<"Nenhuma estratégia de extração obteve sucesso.", " ">>
              \o EntriesUpTo(Len(services))
  /\ cpc \in {"idle", "loop", "awaiting"} => outcome = None

C28_OneAtATime ==
  /\ invoked' /= invoked =>
       /\ cpc = "loop" /\ cpc' = "awaiting"
       /\ invoked' = Append(invoked, Len(invoked) + 1)
  /\ cpc \in {"returned", "thrown"} => cpc' = cpc /\ outcome' = outcome

C28_NullStatementPassesOn ==
  \A k \in 1..(MaxServices + 1) :
    (cpc = "awaiting" /\ position = k /\ k < Len(services)
       /\ NullStatement(services[k]))
      ~> (Len(invoked) > k)

\* C28: extractFromPdf calls the services in list order, one at a time and
\* none after one has succeeded; it returns what the first service that
\* succeeds gives; it throws only when every service has failed, with one
\* entry per service in order in the message; a local service whose parser
\* gave no statement fails and the next service is called.
C28_CompositeTriesInOrder ==
  /\ []C28_InOrderUntilSuccess
  /\ [][C28_OneAtATime]_vars
  /\ C28_NullStatementPassesOn

\* C28: the first service was the local one without a statement, the second
\* one rejected and the third one gave the statement that was returned.
C28_Witness ==
  /\ cpc = "returned"
  /\ Len(services) = 3
  /\ NullStatement(services[1])
  /\ Fails(services[2])
  /\ invoked = <<1, 2, 3>>
  /\ Len(errors) = 2
  /\ errors[1].name = "LocalParserInsufficientDataError"
  /\ outcome = Some([ok |-> TRUE, value |-> "other statement"])

\* The key whose parser resolve gives for a bank name, None when it gives
\* null: the name's own key when a factory is registered for it, otherwise
\* the default key when a factory is registered for that.
KeyIn(registered, default, key) ==
  IF \E e \in DOMAIN registered : registered[e].key = key
  THEN Some(key)
  ELSE IF /\ default /= None
          /\ Val(default) /= <<>>
          /\ \E e \in DOMAIN registered : registered[e].key = Val(default)
       THEN default
       ELSE None

KeyFor(name) == KeyIn(factories, defaultBankKey, FoldText(Trim(name)))

\* The trimmed, lower-case spellings of the names resolve is called with.
ResolveKeys == {FoldText(Trim(name)) : name \in ResolveNames}

\* The parsers kept for a key.
KeptFor(entries, key) == {entries[e].value : e \in {d \in DOMAIN entries : entries[d].key = key}}

C29_OneInstancePerKey ==
  /\ \A i, j \in DOMAIN constructed : constructed[i] = constructed[j] => i = j
  /\ \A i, j \in DOMAIN instances : instances[i].key = instances[j].key => i = j
  /\ (resolved /= <<>> /\ resolved[1] /= None) =>
       /\ bankArg /= None
       /\ KeyFor(Val(bankArg)) = Some(Val(resolved[1]).bankKey)
       /\ KeptFor(instances, Val(resolved[1]).bankKey) = {Val(resolved[1]).parser}

C29_ResolveKeepsOthers ==
  /\ \A e \in DOMAIN instances : e \in DOMAIN instances' /\ instances'[e] = instances[e]
  /\ \A key \in ResolveKeys :
       KeyIn(factories', defaultBankKey', key) = KeyIn(factories, defaultBankKey, key)

\* C29: over any sequence of resolve calls the factory of a bank key is
\* invoked at most once, a resolve returns the one instance kept for the key
\* its bank name maps to, directly or as the default, a kept instance is
\* never replaced, and no resolve changes the key a bank name maps to.
C29_RegistryCachesInstances ==
  []C29_OneInstancePerKey /\ [][C29_ResolveKeepsOthers]_vars

\* C29: after the factories of two keys were invoked, a resolve of another
\* spelling of the first key returned the first instance, as a fallback or
\* not.
C29_Witness ==
  /\ Len(constructed) = 2
  /\ resolved /= <<>> /\ resolved[1] /= None
  /\ Val(resolved[1]).bankKey = constructed[1]
  /\ Val(resolved[1]).parser.serial = 1
  /\ bankArg /= None /\ Val(bankArg) /= constructed[1]

\* What the promise of extract is settled with by what the PDFParser did:
\* data resolve it, an Error rejects it as it is and any other value
\* rejects it inside an Error.
SettlementBy(happened) ==
  IF happened.event = "pdfParser_dataReady"
  THEN [ok |-> TRUE, value |-> happened.with]
  ELSE [ok |-> FALSE,
        error |-> IF happened.with.isError THEN happened.with
                  ELSE [isError |-> TRUE,
                        message |-> <<"Erro ao processar PDF: ">>
                                    \o happened.with.message]]

C30_SettledByFirstEvent ==
  /\ events = <<>> =>
       /\ settled = None
       /\ epc /= "idle" => listeners = {"pdfParser_dataError", "pdfParser_dataReady"}
  /\ events /= <<>> =>
       /\ settled = Some(SettlementBy(events[1]))
       /\ listeners = {}

C30_LaterEventsChangeNothing ==
  settled /= None => (settled' = settled /\ listeners' = {})

\* C30: the promise of extract is settled once, by the first of the
\* decoder's pdfParser_dataReady, its pdfParser_dataError and an exception of
\* parseBuffer; that first event leaves the parser without listeners, and
\* nothing that happens later changes the promise.
C30_SettledExactlyOnce ==
  []C30_SettledByFirstEvent /\ [][C30_LaterEventsChangeNothing]_vars

\* C30: during parseBuffer the decoder reported a value that is no Error,
\* then data, and then parseBuffer threw: the promise is rejected with the
\* Error made of the first.
C30_Witness ==
  /\ Len(events) = 3
  /\ events[1] = [event |-> "pdfParser_dataError",
                  with |-> [isError |-> FALSE, message |-> <<"bad XRef entry">>]]
  /\ events[2].event = "pdfParser_dataReady"
  /\ events[3].event = "throw"
  /\ settled = Some([ok |-> FALSE,
                     error |-> [isError |-> TRUE,
                                message |-> <<"Erro ao processar PDF: ",
                                              "bad XRef entry">>]])

====
